---------------------------- MODULE Spec2Model ----------------------------
(***************************************************************************)
(* Model of the ASCII-structure layout solver: the dynamic grid, the       *)
(* ADJACENT constraint implementation and the tree-based constraint        *)
(* solver (solve_tree_constraint / advance_to_next_constraint).            *)
(*                                                                         *)
(* A component's ascii_tile is kept sparse: the set of <<row, col, ch>>    *)
(* of its non-space characters; every other cell of the tile is a space.   *)
(* The grid is kept sparse in the same way: the set of <<gy, gx, ch>> of   *)
(* the non-space cells of solver->grid, indexed by raw array index.        *)
(***************************************************************************)
EXTENDS Integers, Sequences, FiniteSets, TLC

\* ------------------------------------------------------------------------
\* Program constants
\* ------------------------------------------------------------------------
MAX_COMPONENTS == 20
MAX_CONSTRAINTS == 50
MAX_TILE_SIZE == 20
MAX_GRID_SIZE == 200
MAX_SOLVER_ITERATIONS == 10000
\* TreePlacementOption options[200] in advance_to_next_constraint
MAX_OPTIONS == 200
\* int root_x = 50, root_y = 50
ROOT_X == 50
ROOT_Y == 50
\* init_solver(&solver, 60, 40)
INIT_GRID_WIDTH == 60
INIT_GRID_HEIGHT == 40
\* comp->placed_x = -1 for an unplaced component
UNPLACED_COORD == -1
\* struct TreeNode* children[50]
CHILDREN_CAPACITY == 50

VARIABLES
  components,      \* solver->components[0 .. component_count-1], 1-based here
  constraints,     \* solver->constraints[0 .. constraint_count-1], 1-based here
  grid,            \* solver->grid, sparse
  grid_width, grid_height, grid_min_x, grid_min_y,
  total_iterations,\* solver->total_iterations
  placement_attempts, \* solver->placement_attempts[MAX_COMPONENTS]
  remaining,       \* tree_solver.remaining_constraints, as indices of constraints
  nodes,           \* the TreeNodes allocated by create_tree_node
  current_node,    \* tree_solver.current_node, an index of nodes (0 = NULL)
  nodes_created,   \* tree_solver.nodes_created
  stack,           \* the frames of advance_to_next_constraint on the call stack
  pc,              \* position of the solve
  result,          \* value returned by the last call that returned
  before_trial,    \* history: per frame, the state seen just before its trial
                   \* component was placed (read by no action)
  failed_positions,  \* solver->failed_positions: <<component index, x, y>> entries
  rand_draws,        \* the values the coming rand() calls return, in order
  placement_options, \* the options array get_placement_options has filled
  call_args,         \* arguments of a function called on its own, outside a solve
  call_options,      \* the TreePlacementOption array such a call fills or reorders
  calls_made         \* how many such calls have been made

vars == <<components, constraints, grid, grid_width, grid_height, grid_min_x,
          grid_min_y, total_iterations, placement_attempts, remaining, nodes, current_node,
          nodes_created, stack, pc, result, before_trial,
          failed_positions, rand_draws, placement_options, call_args,
          call_options, calls_made>>

\* ------------------------------------------------------------------------
\* Small helpers
\* ------------------------------------------------------------------------
Min2(a, b) == IF a < b THEN a ELSE b

Max2(a, b) == IF a > b THEN a ELSE b

\* abs() of <stdlib.h>
Abs(a) == IF a < 0 THEN -a ELSE a

\* C integer division truncates toward zero
CDiv(a, b) == IF a >= 0 THEN a \div b ELSE -((-a) \div b)

\* C remainder has the sign of the dividend
CMod(a, b) == a - b * CDiv(a, b)

\* the first n elements of s
Take(s, n) == IF Len(s) <= n THEN s ELSE SubSeq(s, 1, n)

\* s without its element at position i
RemoveAt(s, i) == [k \in 1..(Len(s) - 1) |-> IF k < i THEN s[k] ELSE s[k + 1]]

\* ------------------------------------------------------------------------
\* Component and constraint management
\* ------------------------------------------------------------------------

\* comp->ascii_tile[row][col]
TileChar(comp, row, col) ==
  IF \E c \in comp.ascii_tile : c[1] = row /\ c[2] = col
  THEN (CHOOSE c \in comp.ascii_tile : c[1] = row /\ c[2] = col)[3]
  ELSE " "

\* add_component: the tile as parsed (name, width, height, non-space cells)
add_component(comps, in) ==
  IF Len(comps) >= MAX_COMPONENTS THEN comps
  ELSE Append(comps, [name |-> in.name, width |-> in.width, height |-> in.height,
                      ascii_tile |-> in.ascii_tile, is_placed |-> FALSE,
                      placed_x |-> UNPLACED_COORD, placed_y |-> UNPLACED_COORD])

\* add_constraint: only ADJACENT lines are stored, every other kind is dropped
add_constraint(cons, in) ==
  IF Len(cons) >= MAX_CONSTRAINTS THEN cons
  ELSE IF in.type = "ADJACENT"
       THEN Append(cons, [type |-> "DSL_ADJACENT", component_a |-> in.a,
                          component_b |-> in.b, direction |-> in.dir])
       ELSE cons

RECURSIVE AddComponents(_, _)
AddComponents(ins, comps) ==
  IF ins = <<>> THEN comps
  ELSE AddComponents(Tail(ins), add_component(comps, Head(ins)))

RECURSIVE AddConstraints(_, _)
AddConstraints(ins, cons) ==
  IF ins = <<>> THEN cons
  ELSE AddConstraints(Tail(ins), add_constraint(cons, Head(ins)))

\* find_component: index of the first component with that name, 0 for NULL
find_component(comps, name) ==
  LET hits == {i \in 1..Len(comps) : comps[i].name = name}
  IN IF hits = {} THEN 0 ELSE CHOOSE i \in hits : \A j \in hits : i <= j

\* count_constraint_degree
count_constraint_degree(cons, comp) ==
  Cardinality({i \in 1..Len(cons) :
                 cons[i].component_a = comp.name \/ cons[i].component_b = comp.name})


\* find_most_constrained_unplaced: index of the chosen component, 0 for NULL.
\* A later component replaces the choice only with a strictly larger degree.
MostConstrainedAmong(comps, cons, cand) ==
  IF cand = {} THEN 0
  ELSE CHOOSE i \in cand :
         \A j \in cand :
           LET di == count_constraint_degree(cons, comps[i])
               dj == count_constraint_degree(cons, comps[j])
           IN di > dj \/ (di = dj /\ i <= j)

\* find_most_constrained_unplaced without the degree comparison: the first
\* unplaced component is taken
find_first_unplaced(comps, cons, attempts) ==
  IF \E i \in 1..Len(comps) : ~comps[i].is_placed
  THEN CHOOSE i \in 1..Len(comps) :
         ~comps[i].is_placed /\ \A j \in 1..(i - 1) : comps[j].is_placed
  ELSE 0

find_most_constrained_unplaced(comps, cons, attempts) ==
  LET fresh == {i \in 1..Len(comps) : ~comps[i].is_placed /\ attempts[i] = 0}
      anyUnplaced == {i \in 1..Len(comps) : ~comps[i].is_placed}
  IN IF fresh # {} THEN MostConstrainedAmong(comps, cons, fresh)
     ELSE MostConstrainedAmong(comps, cons, anyUnplaced)

\* ------------------------------------------------------------------------
\* Dynamic grid
\* ------------------------------------------------------------------------

\* solver->grid[gy][gx]
GridChar(g, gy, gx) ==
  IF \E c \in g : c[1] = gy /\ c[2] = gx
  THEN (CHOOSE c \in g : c[1] = gy /\ c[2] = gx)[3]
  ELSE " "

\* solver->grid[gy][gx] = ch
GridWrite(g, gy, gx, ch) ==
  {c \in g : ~(c[1] = gy /\ c[2] = gx)} \cup (IF ch = " " THEN {} ELSE {<<gy, gx, ch>>})

InBuffer(gy, gx) ==
  gx >= 0 /\ gx < MAX_GRID_SIZE /\ gy >= 0 /\ gy < MAX_GRID_SIZE

\* expand_grid_for_component: the grid record after the call.  The old cells
\* inside grid_width x grid_height are copied to their index under the new
\* origin; cells whose new index falls outside the buffer are dropped.
expand_grid_for_component(G, comp, x, y) ==
  LET old_max_x == G.min_x + G.width - 1
      old_max_y == G.min_y + G.height - 1
      new_min_x == IF x < G.min_x THEN x ELSE G.min_x
      new_min_y == IF y < G.min_y THEN y ELSE G.min_y
      new_max_x == IF x + comp.width - 1 > old_max_x THEN x + comp.width - 1 ELSE old_max_x
      new_max_y == IF y + comp.height - 1 > old_max_y THEN y + comp.height - 1 ELSE old_max_y
      new_width == new_max_x - new_min_x + 1
      new_height == new_max_y - new_min_y + 1
  IN IF new_min_x # G.min_x \/ new_min_y # G.min_y
        \/ new_width # G.width \/ new_height # G.height
     THEN [cells |-> {<<(G.min_y + c[1]) - new_min_y, (G.min_x + c[2]) - new_min_x, c[3]>> :
                        c \in {d \in G.cells :
                                 /\ d[1] < G.height /\ d[2] < G.width
                                 /\ InBuffer((G.min_y + d[1]) - new_min_y,
                                             (G.min_x + d[2]) - new_min_x)}},
           min_x |-> new_min_x, min_y |-> new_min_y,
           width |-> new_width, height |-> new_height]
     ELSE G

\* has_character_overlap comparing the bounding boxes instead of the characters
has_bounding_box_overlap(comp1, x1, y1, comp2, x2, y2) ==
  /\ x1 < x2 + comp2.width /\ x2 < x1 + comp1.width
  /\ y1 < y2 + comp2.height /\ y2 < y1 + comp1.height

\* has_character_overlap: comp1 at (x1, y1) against comp2 at (x2, y2)
has_character_overlap(comp1, x1, y1, comp2, x2, y2) ==
  \E row1 \in 0..(comp1.height - 1), col1 \in 0..(comp1.width - 1) :
    /\ TileChar(comp1, row1, col1) # " "
    /\ \E row2 \in 0..(comp2.height - 1), col2 \in 0..(comp2.width - 1) :
         /\ TileChar(comp2, row2, col2) # " "
         /\ x1 + col1 = x2 + col2
         /\ y1 + row1 = y2 + row2

\* the overlap loop of is_placement_valid (after its grid expansion)
NoOverlapWithPlaced(comps, ci, x, y) ==
  \A i \in 1..Len(comps) :
    (i # ci /\ comps[i].is_placed) =>
      ~has_character_overlap(comps[ci], x, y, comps[i],
                             comps[i].placed_x, comps[i].placed_y)

\* is_placement_valid without its overlap loop: any position is accepted
is_placement_valid_unchecked(comps, ci, x, y) == ci # 0

\* is_placement_valid: its return value; its grid expansion is applied by the caller
is_placement_valid(comps, ci, x, y) ==
  IF ci = 0 THEN FALSE ELSE NoOverlapWithPlaced(comps, ci, x, y)

\* the write loop of place_component: world coordinates index the buffer directly
PaintCells(g, comp, x, y) ==
  LET painted == {c \in comp.ascii_tile :
                    /\ c[1] < comp.height /\ c[2] < comp.width
                    /\ InBuffer(y + c[1], x + c[2])}
      idx == {<<y + c[1], x + c[2]>> : c \in painted}
  IN {c \in g : <<c[1], c[2]>> \notin idx}
       \cup {<<y + c[1], x + c[2], c[3]>> : c \in painted}

\* the erase loop of remove_component
EraseCells(g, comp, x, y) ==
  LET erased == {<<y + c[1], x + c[2]>> :
                   c \in {d \in comp.ascii_tile :
                            /\ d[1] < comp.height /\ d[2] < comp.width
                            /\ InBuffer(y + d[1], x + d[2])}}
  IN {c \in g : <<c[1], c[2]>> \notin erased}

\* place_component: [comps, G] after the call
place_component(comps, G, ci, x, y) ==
  LET G1 == expand_grid_for_component(G, comps[ci], x, y)
  IN [comps |-> [comps EXCEPT ![ci].is_placed = TRUE,
                              ![ci].placed_x = x, ![ci].placed_y = y],
      G |-> [G1 EXCEPT !.cells = PaintCells(G1.cells, comps[ci], x, y)]]

\* remove_component that also blanks the removed component's tile
remove_component_blanking_tile(comps, G, ci) ==
  IF ci = 0 \/ ~comps[ci].is_placed THEN [comps |-> comps, G |-> G]
  ELSE [comps |-> [comps EXCEPT ![ci].is_placed = FALSE,
                                ![ci].placed_x = UNPLACED_COORD,
                                ![ci].placed_y = UNPLACED_COORD,
                                ![ci].ascii_tile = {}],
        G |-> [G EXCEPT !.cells = EraseCells(G.cells, comps[ci],
                                             comps[ci].placed_x, comps[ci].placed_y)]]

\* remove_component: [comps, G] after the call
remove_component(comps, G, ci) ==
  IF ci = 0 \/ ~comps[ci].is_placed THEN [comps |-> comps, G |-> G]
  ELSE [comps |-> [comps EXCEPT ![ci].is_placed = FALSE,
                                ![ci].placed_x = UNPLACED_COORD,
                                ![ci].placed_y = UNPLACED_COORD],
        G |-> [G EXCEPT !.cells = EraseCells(G.cells, comps[ci],
                                             comps[ci].placed_x, comps[ci].placed_y)]]

\* ------------------------------------------------------------------------
\* ADJACENT constraint: validation (constraints.c)
\* ------------------------------------------------------------------------

\* check_adjacent: rectangle 1 lies on side dir of rectangle 2
RECURSIVE check_adjacent(_, _, _, _, _, _, _, _, _)
check_adjacent(x1, y1, w1, h1, x2, y2, w2, h2, dir) ==
  CASE dir = "n" -> IF y1 + h1 = y2 THEN (x1 < x2 + w2) /\ (x1 + w1 > x2) ELSE FALSE
    [] dir = "s" -> IF y1 = y2 + h2 THEN (x1 < x2 + w2) /\ (x1 + w1 > x2) ELSE FALSE
    [] dir = "e" -> IF x1 = x2 + w2 THEN (y1 < y2 + h2) /\ (y1 + h1 > y2) ELSE FALSE
    [] dir = "w" -> IF x1 + w1 = x2 THEN (y1 < y2 + h2) /\ (y1 + h1 > y2) ELSE FALSE
    [] dir = "a" -> \/ check_adjacent(x1, y1, w1, h1, x2, y2, w2, h2, "n")
                    \/ check_adjacent(x1, y1, w1, h1, x2, y2, w2, h2, "s")
                    \/ check_adjacent(x1, y1, w1, h1, x2, y2, w2, h2, "e")
                    \/ check_adjacent(x1, y1, w1, h1, x2, y2, w2, h2, "w")
    [] OTHER -> FALSE

\* check_constraint_satisfied: c1, c2 are component indices (0 for NULL)
check_constraint_satisfied(comps, c, c1, c2, test_x, test_y) ==
  IF c1 = 0 \/ c2 = 0 THEN FALSE
  ELSE IF ~comps[c1].is_placed \/ ~comps[c2].is_placed THEN FALSE
  ELSE IF c.type # "DSL_ADJACENT" THEN FALSE
  ELSE IF c.component_a = comps[c1].name
       THEN check_adjacent(test_x, test_y, comps[c1].width, comps[c1].height,
                           comps[c2].placed_x, comps[c2].placed_y,
                           comps[c2].width, comps[c2].height, c.direction)
       ELSE check_adjacent(comps[c2].placed_x, comps[c2].placed_y,
                           comps[c2].width, comps[c2].height,
                           test_x, test_y, comps[c1].width, comps[c1].height,
                           c.direction)

\* the component the lookup loop of adjacent_validate_constraint ends with: the
\* last one carrying the name (0 for NULL)
LastNamed(comps, name) ==
  LET hits == {i \in 1..Len(comps) : comps[i].name = name}
  IN IF hits = {} THEN 0 ELSE CHOOSE i \in hits : \A j \in hits : i >= j

\* adjacent_validate_constraint with the perpendicular tests made non-strict, so
\* that two boxes meeting at a corner count as adjacent
adjacent_validate_constraint_corner(comps, c) ==
  LET ia == LastNamed(comps, c.component_a)
      ib == LastNamed(comps, c.component_b)
  IN IF ia = 0 \/ ib = 0 THEN FALSE
     ELSE IF ~comps[ia].is_placed \/ ~comps[ib].is_placed THEN FALSE
     ELSE
       LET dir == c.direction
           a_x1 == comps[ia].placed_x
           a_y1 == comps[ia].placed_y
           a_x2 == comps[ia].placed_x + comps[ia].width
           a_y2 == comps[ia].placed_y + comps[ia].height
           b_x1 == comps[ib].placed_x
           b_y1 == comps[ib].placed_y
           b_x2 == comps[ib].placed_x + comps[ib].width
           b_y2 == comps[ib].placed_y + comps[ib].height
       IN \/ /\ dir \in {"n", "s", "a"}
             /\ (a_y2 = b_y1 \/ b_y2 = a_y1) /\ a_x1 <= b_x2 /\ a_x2 >= b_x1
          \/ /\ dir \in {"e", "w", "a"}
             /\ (a_x2 = b_x1 \/ b_x2 = a_x1) /\ a_y1 <= b_y2 /\ a_y2 >= b_y1

\* adjacent_validate_constraint
adjacent_validate_constraint(comps, c) ==
  LET ia == LastNamed(comps, c.component_a)
      ib == LastNamed(comps, c.component_b)
  IN IF ia = 0 \/ ib = 0 THEN FALSE
     ELSE IF ~comps[ia].is_placed \/ ~comps[ib].is_placed THEN FALSE
     ELSE
       LET dir == c.direction
           a_x1 == comps[ia].placed_x
           a_y1 == comps[ia].placed_y
           a_x2 == comps[ia].placed_x + comps[ia].width
           a_y2 == comps[ia].placed_y + comps[ia].height
           b_x1 == comps[ib].placed_x
           b_y1 == comps[ib].placed_y
           b_x2 == comps[ib].placed_x + comps[ib].width
           b_y2 == comps[ib].placed_y + comps[ib].height
       IN \/ /\ dir = "n" \/ dir = "a"
             /\ \/ (a_y2 = b_y1 /\ a_x1 < b_x2 /\ a_x2 > b_x1)
                \/ (b_y2 = a_y1 /\ b_x1 < a_x2 /\ b_x2 > a_x1)
          \/ /\ dir = "s" \/ dir = "a"
             /\ \/ (a_y1 = b_y2 /\ a_x1 < b_x2 /\ a_x2 > b_x1)
                \/ (b_y1 = a_y2 /\ b_x1 < a_x2 /\ b_x2 > a_x1)
          \/ /\ dir = "e" \/ dir = "a"
             /\ \/ (a_x1 = b_x2 /\ a_y1 < b_y2 /\ a_y2 > b_y1)
                \/ (b_x1 = a_x2 /\ b_y1 < a_y2 /\ b_y2 > a_y1)
          \/ /\ dir = "w" \/ dir = "a"
             /\ \/ (a_x2 = b_x1 /\ a_y1 < b_y2 /\ a_y2 > b_y1)
                \/ (b_x2 = a_x1 /\ b_y1 < a_y2 /\ b_y2 > a_y1)

\* validate_constraint: dispatch on the constraint kind
validate_constraint(comps, c) ==
  IF c.type = "DSL_ADJACENT" THEN adjacent_validate_constraint(comps, c) ELSE FALSE

\* ------------------------------------------------------------------------
\* Tree solver: option generation, scoring, ordering
\* ------------------------------------------------------------------------

\* calculate_preference_score (tree solver)
calculate_preference_score(comps, ci, c, x, y) ==
  LET comp == comps[ci]
      ri == IF c.component_a = comp.name THEN find_component(comps, c.component_b)
            ELSE find_component(comps, c.component_a)
  IN IF ri = 0 THEN 0
     ELSE IF ~comps[ri].is_placed THEN 0
     ELSE
       LET ref == comps[ri]
           ns == IF c.direction = "n" \/ c.direction = "s"
                 THEN (IF x = ref.placed_x THEN 10 ELSE 0)
                      + (IF x + comp.width = ref.placed_x + ref.width THEN 10 ELSE 0)
                      + (IF Abs((x + CDiv(comp.width, 2))
                                - (ref.placed_x + CDiv(ref.width, 2))) <= 1
                         THEN 15 ELSE 0)
                 ELSE 0
           ew == IF c.direction = "e" \/ c.direction = "w"
                 THEN (IF y = ref.placed_y THEN 10 ELSE 0)
                      + (IF y + comp.height = ref.placed_y + ref.height THEN 10 ELSE 0)
                      + (IF Abs((y + CDiv(comp.height, 2))
                                - (ref.placed_y + CDiv(ref.height, 2))) <= 1
                         THEN 15 ELSE 0)
                 ELSE 0
       IN ns + ew

\* 0-based indices, in increasing order, of the placed components other than ci
\* whose filled cells meet those of ci at (x, y)
RECURSIVE ConflictScan(_, _, _, _, _)
ConflictScan(comps, ci, x, y, i) ==
  IF i > Len(comps) THEN <<>>
  ELSE (IF i # ci /\ comps[i].is_placed
           /\ has_character_overlap(comps[ci], x, y, comps[i],
                                    comps[i].placed_x, comps[i].placed_y)
        THEN <<i - 1>> ELSE <<>>)
       \o ConflictScan(comps, ci, x, y, i + 1)

\* detect_placement_conflicts_detailed looking only at the components added
\* before ci
detect_placement_conflicts_before(comps, ci, x, y) ==
  LET found == Take(SelectSeq(ConflictScan(comps, ci, x, y, 1), LAMBDA i : i < ci - 1),
                    MAX_COMPONENTS)
  IN [conflicting_components |-> found, conflict_count |-> Len(found)]

\* detect_placement_conflicts_detailed: the ConflictInfo it fills
detect_placement_conflicts_detailed(comps, ci, x, y) ==
  LET found == Take(ConflictScan(comps, ci, x, y, 1), MAX_COMPONENTS)
  IN [conflicting_components |-> found, conflict_count |-> Len(found)]

\* one TreePlacementOption as the generation loops fill it
MakeOption(comps, ci, c, x, y) ==
  LET conflicts == detect_placement_conflicts_detailed(comps, ci, x, y)
  IN [x |-> x, y |-> y,
      preference_score |-> calculate_preference_score(comps, ci, c, x, y),
      conflicts |-> conflicts,
      has_conflict |-> conflicts.conflict_count > 0]

\* generate_placement_options_for_constraint leaving one empty row between a north
\* candidate and the placed component
generate_placement_options_with_gap(comps, c, ui) ==
  LET ia == find_component(comps, c.component_a)
      ib == find_component(comps, c.component_b)
      pi == IF ia # 0 /\ comps[ia].is_placed /\ ia # ui THEN ia
            ELSE IF ib # 0 /\ comps[ib].is_placed /\ ib # ui THEN ib
            ELSE 0
  IN IF pi = 0 \/ c.direction # "n" THEN <<>>
     ELSE [k \in 1..(comps[pi].width + comps[ui].width - 1) |->
             MakeOption(comps, ui, c, comps[pi].placed_x + (k - comps[ui].width),
                        comps[pi].placed_y - comps[ui].height - 1)]

\* generate_placement_options_for_constraint: the options array, cut at 200
generate_placement_options_for_constraint(comps, c, ui) ==
  LET ia == find_component(comps, c.component_a)
      ib == find_component(comps, c.component_b)
      pi == IF ia # 0 /\ comps[ia].is_placed /\ ia # ui THEN ia
            ELSE IF ib # 0 /\ comps[ib].is_placed /\ ib # ui THEN ib
            ELSE 0
  IN IF pi = 0 THEN <<>>
     ELSE
       LET dir == c.direction
           base_x == comps[pi].placed_x
           base_y == comps[pi].placed_y
           base_w == comps[pi].width
           base_h == comps[pi].height
           uw == comps[ui].width
           uh == comps[ui].height
           north == IF dir = "n" \/ dir = "a"
                    THEN [k \in 1..(base_w + uw - 1) |->
                            MakeOption(comps, ui, c, base_x + (k - uw), base_y - uh)]
                    ELSE <<>>
           south == IF dir = "s" \/ dir = "a"
                    THEN [k \in 1..(base_w + uw - 1) |->
                            MakeOption(comps, ui, c, base_x + (k - uw), base_y + base_h)]
                    ELSE <<>>
           east == IF dir = "e" \/ dir = "a"
                   THEN [k \in 1..(base_h + uh - 1) |->
                           MakeOption(comps, ui, c, base_x + base_w, base_y + (k - uh))]
                   ELSE <<>>
           west == IF dir = "w" \/ dir = "a"
                   THEN [k \in 1..(base_h + uh - 1) |->
                           MakeOption(comps, ui, c, base_x - uw, base_y + (k - uh))]
                   ELSE <<>>
       IN Take(north \o south \o east \o west, MAX_OPTIONS)

\* the swap test exchanging neighbours of equal score as well
ShouldSwap_or_equal(a, b) ==
  \/ a.has_conflict /\ ~b.has_conflict
  \/ /\ a.has_conflict = b.has_conflict
     /\ a.preference_score <= b.preference_score

\* the swap test of order_placement_options for neighbours a, b
ShouldSwap(a, b) ==
  \/ a.has_conflict /\ ~b.has_conflict
  \/ /\ ~(a.has_conflict /\ ~b.has_conflict)
     /\ a.has_conflict = b.has_conflict
     /\ a.preference_score < b.preference_score

\* inner loop of the bubble sort: j (1-based) runs up to last.  The passes over
\* j..mid and mid+1..last are the loop's passes in their order; the array after
\* the first half is bound as a value before the second half runs on it.
RECURSIVE BubbleInner(_, _, _)
BubbleInner(o, j, last) ==
  IF j > last THEN o
  ELSE IF j = last
       THEN (IF ShouldSwap(o[j], o[j + 1])
             THEN [o EXCEPT ![j] = o[j + 1], ![j + 1] = o[j]]
             ELSE o)
       ELSE CHOOSE r \in {BubbleInner(first, ((j + last) \div 2) + 1, last) :
                             first \in {BubbleInner(o, j, (j + last) \div 2)}} : TRUE

\* the passes i = lo .. hi (0-based) of the outer loop, in their order
RECURSIVE BubblePasses(_, _, _)
BubblePasses(o, lo, hi) ==
  IF lo > hi THEN o
  ELSE IF lo = hi THEN BubbleInner(o, 1, Len(o) - lo - 1)
       ELSE CHOOSE r \in {BubblePasses(first, ((lo + hi) \div 2) + 1, hi) :
                             first \in {BubblePasses(o, lo, (lo + hi) \div 2)}} : TRUE

\* outer loop of the bubble sort: i (0-based) runs up to option_count - 2
BubbleOuter(o, i) == BubblePasses(o, i, Len(o) - 2)

\* order_placement_options
order_placement_options(options) == BubbleOuter(options, 0)

\* get_next_constraint_involving_placed: index of the constraint, 0 for NULL
IsFrontier(comps, c) ==
  LET ia == find_component(comps, c.component_a)
      ib == find_component(comps, c.component_b)
      a_placed == ia # 0 /\ comps[ia].is_placed
      b_placed == ib # 0 /\ comps[ib].is_placed
  IN (a_placed /\ ~b_placed) \/ (~a_placed /\ b_placed)

\* get_next_constraint_involving_placed taking the first constraint with a placed
\* endpoint, whatever the other endpoint
get_next_constraint_any_placed(comps, cons, rem) ==
  LET AnyPlaced(c) ==
        \E name \in {c.component_a, c.component_b} :
          /\ find_component(comps, name) # 0
          /\ comps[find_component(comps, name)].is_placed
      hits == {k \in 1..Len(rem) : AnyPlaced(cons[rem[k]])}
  IN IF hits = {} THEN 0
     ELSE rem[CHOOSE k \in hits : \A j \in hits : k <= j]

get_next_constraint_involving_placed(comps, cons, rem) ==
  LET hits == {k \in 1..Len(rem) : IsFrontier(comps, cons[rem[k]])}
  IN IF hits = {} THEN 0
     ELSE rem[CHOOSE k \in hits : \A j \in hits : k <= j]

\* ------------------------------------------------------------------------
\* Inputs: tiles, and the component and constraint lists handed to the solver
\* ------------------------------------------------------------------------
MaxTile == 2
MaxCons == 2

\* a w x h tile with every cell filled
Full(w, h) == {<<r, c, "X">> : r \in 0..(h - 1), c \in 0..(w - 1)}

\* a w x h room: walls on the border, blank interior
Box(w, h) ==
  {<<r, c, IF (r = 0 \/ r = h - 1) /\ (c = 0 \/ c = w - 1) THEN "+"
           ELSE IF r = 0 \/ r = h - 1 THEN "-" ELSE "|">> :
     r \in {0, h - 1}, c \in 0..(w - 1)}
  \cup {<<r, c, "|">> : r \in 0..(h - 1), c \in {0, w - 1}}

\* a 1 x h post: only its two end cells are filled
Post(h) == {<<0, 0, "^">>, <<h - 1, 0, "v">>}

Comp(name, w, h, tile) == [name |-> name, width |-> w, height |-> h, ascii_tile |-> tile]

Adj(a, b, dir) == [type |-> "ADJACENT", a |-> a, b |-> b, dir |-> dir]

RoomA == Comp("A", 7, 5, Box(7, 5))

RoomB == Comp("B", 4, 3, Box(4, 3))

Sq(name) == Comp(name, 2, 2, Full(2, 2))

Dot(name) == Comp(name, 1, 1, Full(1, 1))

Tall(name) == Comp(name, 1, MAX_TILE_SIZE, Post(MAX_TILE_SIZE))

Input(comps, cons) == [comps |-> comps, cons |-> cons]

\* hand-written inputs: the spec's scenarios and the solver's corner cases
CatalogueInputs ==
  { Input(<<RoomA, RoomB>>, <<Adj("B", "A", "n")>>),
    Input(<<RoomB, RoomA>>, <<Adj("B", "A", "n")>>),
    Input(<<RoomA, RoomB>>, <<Adj("A", "B", "a")>>),
    Input(<<Sq("A"), Sq("B"), Sq("C")>>,
          <<Adj("A", "B", "n"), Adj("B", "C", "n"), Adj("C", "A", "n")>>),
    Input(<<>>, <<>>),
    Input(<<Sq("A")>>, <<Adj("Z", "A", "n")>>),
    Input(<<Sq("A")>>, <<Adj("A", "Z", "n")>>),
    Input(<<Sq("A"), Sq("B")>>, <<Adj("Y", "Z", "n"), Adj("A", "B", "e")>>),
    Input(<<Sq("A"), Sq("B")>>,
          <<[type |-> "CONNECTED", a |-> "A", b |-> "B", dir |-> "n"]>>),
    Input(<<Sq("A"), Sq("B")>>, <<Adj("A", "B", "x")>>),
    Input(<<Sq("A"), Dot("B"), Dot("C")>>,
          <<Adj("A", "B", "w"), Adj("B", "C", "x")>>),
    Input(<<Sq("A"), Sq("B")>>, <<>>),
    Input(<<Sq("A"), Sq("B"), Sq("C")>>, <<Adj("A", "B", "e")>>),
    Input(<<Tall("R"), Tall("P"), Tall("Q"), Tall("S"), Dot("T")>>,
          <<Adj("P", "R", "n"), Adj("Q", "P", "n"), Adj("S", "Q", "n"),
            Adj("S", "Z", "n"), Adj("R", "T", "e")>>),
    Input(<<Tall("R"), Tall("P"), Tall("Q"), Tall("S"), Dot("T")>>,
          <<Adj("P", "R", "n"), Adj("Q", "P", "n"), Adj("S", "Q", "n"),
            Adj("R", "T", "w")>>),
    Input(<<Sq("A"), Dot("B"), Dot("C"), Dot("D")>>,
          <<Adj("A", "B", "e"), Adj("B", "C", "w"), Adj("C", "D", "x")>>),
    Input(<<Dot("R"), Sq("A"), Dot("C"), Dot("D")>>,
          <<Adj("A", "R", "e"), Adj("C", "R", "n"), Adj("D", "C", "e"),
            Adj("A", "D", "x")>>),
    Input(<<Comp("A", 5, 1, Full(5, 1)), Dot("B")>>, <<Adj("B", "A", "n")>>),
    Input(<<Comp("A", 13, 13, Box(13, 13)), Dot("B"), Dot("C")>>,
          <<Adj("B", "A", "a"), Adj("A", "C", "x")>>),
    Input(<<Tall("R"), Tall("P1"), Tall("P2"), Tall("P3"), Tall("P4"), Tall("P5"),
            Tall("P6"), Tall("P7"), Dot("T")>>,
          <<Adj("P1", "R", "s"), Adj("P2", "P1", "s"), Adj("P3", "P2", "s"),
            Adj("P4", "P3", "s"), Adj("P5", "P4", "s"), Adj("P6", "P5", "s"),
            Adj("P7", "P6", "s"), Adj("R", "T", "e")>>) }

\* two filled rectangles of every size up to MaxTile and one constraint
PairInputs ==
  { Input(<<Comp("A", wa, ha, Full(wa, ha)), Comp("B", wb, hb, Full(wb, hb))>>,
          <<Adj(e[1], e[2], d)>>) :
      wa \in 1..MaxTile, ha \in 1..MaxTile, wb \in 1..MaxTile, hb \in 1..MaxTile,
      e \in {<<"A", "B">>, <<"B", "A">>}, d \in {"n", "s", "e", "w", "a"} }

\* the constraints the generated three-component inputs draw from
ConstraintPool ==
  { Adj(e[1], e[2], d) :
      e \in {<<"A", "B">>, <<"B", "C">>, <<"C", "A">>, <<"C", "B">>},
      d \in {"n", "w", "a"} }

SeqsUpTo(S, n) == UNION {[1..k -> S] : k \in 0..n}

\* three small components and up to MaxCons constraints of the pool
TripleInputs ==
  { Input(<<Comp("A", 2, 1, Full(2, 1)), Dot("B"), Comp("C", 1, 2, Full(1, 2))>>, cs) :
      cs \in SeqsUpTo(ConstraintPool, MaxCons) }

Inputs == CatalogueInputs \cup PairInputs \cup TripleInputs

\* ------------------------------------------------------------------------
\* State after init_solver and the add_component / add_constraint calls
\* ------------------------------------------------------------------------
\* no function is being called on its own
NoArgs == [fn |-> "none"]

NoCall == call_args = NoArgs /\ call_options = <<>> /\ calls_made = 0

GridRec == [cells |-> grid, min_x |-> grid_min_x, min_y |-> grid_min_y,
            width |-> grid_width, height |-> grid_height]

SetGrid(G) ==
  /\ grid' = G.cells
  /\ grid_min_x' = G.min_x
  /\ grid_min_y' = G.min_y
  /\ grid_width' = G.width
  /\ grid_height' = G.height

GridUnchanged == UNCHANGED <<grid, grid_min_x, grid_min_y, grid_width, grid_height>>

\* the state only the recursive solver's option generation reads or writes
LegacyUnchanged ==
  UNCHANGED <<failed_positions, rand_draws, placement_options, call_args,
              call_options, calls_made>>

Init ==
  \E in \in Inputs :
    /\ components = AddComponents(in.comps, <<>>)
    /\ constraints = AddConstraints(in.cons, <<>>)
    /\ grid = {}
    /\ grid_width = INIT_GRID_WIDTH
    /\ grid_height = INIT_GRID_HEIGHT
    /\ grid_min_x = 0
    /\ grid_min_y = 0
    /\ total_iterations = 0
    /\ placement_attempts = [i \in 1..MAX_COMPONENTS |-> 0]
    /\ remaining = <<>>
    /\ nodes = <<>>
    /\ current_node = 0
    /\ nodes_created = 0
    /\ stack = <<>>
    /\ pc = "ready"
    /\ result = 0
    /\ before_trial = <<>>
    /\ failed_positions = {}
    /\ rand_draws = <<>>
    /\ placement_options = <<>>
    /\ NoCall

\* ------------------------------------------------------------------------
\* solve_tree_constraint
\* ------------------------------------------------------------------------

\* create_tree_node: a zeroed node with the given fields (parent 0 = NULL)
create_tree_node(ci, c, x, y, depth, comp_index) ==
  [component |-> ci, constraint |-> c, x |-> x, y |-> y, depth |-> depth,
   component_index |-> comp_index, parent |-> 0, child_count |-> 0]

\* init_tree_solver: every constraint goes to the remaining list, in order
init_tree_solver(cons) == [i \in 1..Len(cons) |-> i]

\* the removal loops of advance_to_next_constraint: drop the first entry equal to ci
RemoveConstraint(rem, ci) ==
  LET hits == {k \in 1..Len(rem) : rem[k] = ci}
  IN IF hits = {} THEN rem
     ELSE RemoveAt(rem, CHOOSE k \in hits : \A j \in hits : k <= j)

\* the grid's non-space cells by world coordinate, under its current origin
WorldCells(cells, min_x, min_y) == {<<c[1] + min_y, c[2] + min_x, c[3]>> : c \in cells}

\* history records kept in before_trial
NoSnapshot == [taken |-> FALSE]

Snapshot == [taken |-> TRUE, components |-> components, grid |-> grid,
             world |-> WorldCells(grid, grid_min_x, grid_min_y)]

\* solve_tree_constraint finds no component to place: cleanup, return 0
SolveNoComponents ==
  /\ pc = "ready"
  /\ find_most_constrained_unplaced(components, constraints, placement_attempts) = 0
  /\ remaining' = init_tree_solver(constraints)
  /\ nodes_created' = 0
  /\ current_node' = 0
  /\ nodes' = <<>>
  /\ result' = 0
  /\ pc' = "done"
  /\ GridUnchanged
  /\ UNCHANGED <<components, constraints, total_iterations, placement_attempts, stack,
                 before_trial>>
  /\ LegacyUnchanged

\* solve_tree_constraint up to its call of advance_to_next_constraint: the root
\* component is placed at (50, 50) and the root node created
SolveStart ==
  /\ pc = "ready"
  /\ LET root_comp == find_most_constrained_unplaced(components, constraints,
                                                     placement_attempts)
     IN /\ root_comp # 0
        /\ LET placed == place_component(components, GridRec, root_comp, ROOT_X, ROOT_Y)
           IN /\ components' = placed.comps
              /\ SetGrid(placed.G)
        /\ nodes' = <<create_tree_node(root_comp, 0, ROOT_X, ROOT_Y, 0, root_comp - 1)>>
  /\ remaining' = init_tree_solver(constraints)
  /\ nodes_created' = 0
  /\ current_node' = 1
  /\ pc' = "call"
  /\ UNCHANGED <<constraints, total_iterations, placement_attempts, stack, result,
                 before_trial>>
  /\ LegacyUnchanged

\* the frontier constraint and the component it leaves to place (0 for NULL)
NextConstraint == get_next_constraint_involving_placed(components, constraints, remaining)

UnplacedOf(c) ==
  LET ia == find_component(components, c.component_a)
      ib == find_component(components, c.component_b)
  IN IF ia # 0 /\ ~components[ia].is_placed THEN ia
     ELSE IF ib # 0 /\ ~components[ib].is_placed THEN ib
     ELSE 0

\* advance_to_next_constraint finding no frontier constraint and, instead of
\* returning, placing the first component still unplaced east of the grid
AdvanceNoFrontier_placing_leftover ==
  /\ pc = "call"
  /\ NextConstraint = 0
  /\ IF \E i \in 1..Len(components) : ~components[i].is_placed
     THEN LET i == CHOOSE k \in 1..Len(components) :
                     ~components[k].is_placed
                     /\ \A j \in 1..(k - 1) : components[j].is_placed
              placed == place_component(components, GridRec, i,
                                        grid_min_x + grid_width, grid_min_y)
          IN /\ components' = placed.comps
             /\ SetGrid(placed.G)
             /\ UNCHANGED <<result, pc>>
     ELSE /\ result' = 1
          /\ pc' = "return"
          /\ GridUnchanged
          /\ UNCHANGED components
  /\ UNCHANGED <<constraints, total_iterations, placement_attempts,
                 remaining, nodes, current_node, nodes_created, stack, before_trial>>
  /\ LegacyUnchanged

\* advance_to_next_constraint: no constraint has exactly one endpoint placed
AdvanceNoFrontier ==
  /\ pc = "call"
  /\ NextConstraint = 0
  /\ result' = 1
  /\ pc' = "return"
  /\ GridUnchanged
  /\ UNCHANGED <<components, constraints, total_iterations, placement_attempts,
                 remaining, nodes, current_node, nodes_created, stack, before_trial>>
  /\ LegacyUnchanged

\* advance_to_next_constraint: the frontier constraint names the placed component
\* as component_a and an unknown component_b; check_constraint_satisfied gets a
\* NULL comp2 and the call returns 0
AdvanceUnknownB ==
  /\ pc = "call"
  /\ NextConstraint # 0
  /\ LET c == constraints[NextConstraint]
     IN /\ UnplacedOf(c) = 0
        /\ find_component(components, c.component_a) # 0
        /\ ~check_constraint_satisfied(components, c,
                                       find_component(components, c.component_a),
                                       find_component(components, c.component_b),
                                       components[find_component(components, c.component_a)].placed_x,
                                       components[find_component(components, c.component_a)].placed_y)
  /\ result' = 0
  /\ pc' = "return"
  /\ GridUnchanged
  /\ UNCHANGED <<components, constraints, total_iterations, placement_attempts,
                 remaining, nodes, current_node, nodes_created, stack, before_trial>>
  /\ LegacyUnchanged

\* advance_to_next_constraint: the frontier constraint names an unknown
\* component_a; comp_a->placed_x reads through a NULL pointer.  The build either
\* faults there or, the callee testing !comp1 first, returns 0.
AdvanceUnknownA ==
  /\ pc = "call"
  /\ NextConstraint # 0
  /\ LET c == constraints[NextConstraint]
     IN /\ UnplacedOf(c) = 0
        /\ find_component(components, c.component_a) = 0
  /\ \/ /\ pc' = "crashed"
        /\ result' = result
     \/ /\ pc' = "return"
        /\ result' = 0
  /\ GridUnchanged
  /\ UNCHANGED <<components, constraints, total_iterations, placement_attempts,
                 remaining, nodes, current_node, nodes_created, stack, before_trial>>
  /\ LegacyUnchanged

\* advance_to_next_constraint: option generation yields nothing; the constraint is
\* taken off the remaining list before 0 is returned
AdvanceNoOptions_dropping_constraint ==
  /\ pc = "call"
  /\ NextConstraint # 0
  /\ LET c == constraints[NextConstraint]
     IN /\ UnplacedOf(c) # 0
        /\ generate_placement_options_for_constraint(components, c, UnplacedOf(c)) = <<>>
  /\ remaining' = RemoveConstraint(remaining, NextConstraint)
  /\ result' = 0
  /\ pc' = "return"
  /\ GridUnchanged
  /\ UNCHANGED <<components, constraints, total_iterations, placement_attempts,
                 nodes, current_node, nodes_created, stack, before_trial>>
  /\ LegacyUnchanged

\* advance_to_next_constraint: option generation yields nothing, return 0
AdvanceNoOptions ==
  /\ pc = "call"
  /\ \E nc \in {NextConstraint} \ {0} :
       \E ui \in {UnplacedOf(constraints[nc])} \ {0} :
         generate_placement_options_for_constraint(components, constraints[nc], ui) = <<>>
  /\ result' = 0
  /\ pc' = "return"
  /\ GridUnchanged
  /\ UNCHANGED <<components, constraints, total_iterations, placement_attempts,
                 remaining, nodes, current_node, nodes_created, stack, before_trial>>
  /\ LegacyUnchanged

\* advance_to_next_constraint: options generated and ordered, the option loop starts
AdvanceGenerate ==
  /\ pc = "call"
  /\ \E nc \in {NextConstraint} \ {0} :
       \E ui \in {UnplacedOf(constraints[nc])} \ {0} :
         \E options \in {generate_placement_options_for_constraint(
                            components, constraints[nc], ui)} \ {<<>>} :
           \E ordered \in {order_placement_options(options)} :
             stack' = Append(stack,
                             [next_constraint |-> nc,
                              unplaced_comp |-> ui,
                              options |-> ordered,
                              option_count |-> Len(options),
                              i |-> 1,
                              child |-> 0])
  /\ pc' = "loop"
  /\ before_trial' = Append(before_trial, NoSnapshot)
  /\ GridUnchanged
  /\ UNCHANGED <<components, constraints, total_iterations, placement_attempts,
                 remaining, nodes, current_node, nodes_created, result>>
  /\ LegacyUnchanged

Top == stack[Len(stack)]

\* the nodes after the loop body has created the child of the current node
WithChild(fr) ==
  LET opt == fr.options[fr.i]
      child == [create_tree_node(fr.unplaced_comp, fr.next_constraint, opt.x, opt.y,
                                 nodes[current_node].depth + 1, fr.unplaced_comp - 1)
                  EXCEPT !.parent = current_node]
  IN Append([nodes EXCEPT ![current_node].child_count = @ + 1], child)

\* one pass of the option loop in which tree_place_component refuses the option:
\* the child node stays, the grid keeps the expansion made by is_placement_valid
TryOptionRejected ==
  /\ pc = "loop"
  /\ Top.i <= Top.option_count
  /\ LET fr == Top
         opt == fr.options[fr.i]
     IN /\ ~is_placement_valid(components, fr.unplaced_comp, opt.x, opt.y)
        /\ SetGrid(expand_grid_for_component(GridRec, components[fr.unplaced_comp],
                                             opt.x, opt.y))
        /\ nodes' = WithChild(fr)
        /\ stack' = [stack EXCEPT ![Len(stack)].i = @ + 1,
                                  ![Len(stack)].child = Len(nodes) + 1]
  /\ nodes_created' = nodes_created + 1
  /\ UNCHANGED <<components, constraints, total_iterations, placement_attempts,
                 remaining, current_node, pc, result, before_trial>>
  /\ LegacyUnchanged

\* one pass of the option loop in which the option is placed: the constraint
\* leaves the remaining list and advance_to_next_constraint is called again
TryOptionPlaced ==
  /\ pc = "loop"
  /\ Top.i <= Top.option_count
  /\ LET fr == Top
         opt == fr.options[fr.i]
     IN /\ is_placement_valid(components, fr.unplaced_comp, opt.x, opt.y)
        /\ LET G1 == expand_grid_for_component(GridRec, components[fr.unplaced_comp],
                                               opt.x, opt.y)
               placed == place_component(components, G1, fr.unplaced_comp, opt.x, opt.y)
           IN /\ components' = placed.comps
              /\ SetGrid(placed.G)
        /\ nodes' = WithChild(fr)
        /\ current_node' = Len(nodes) + 1
        /\ stack' = [stack EXCEPT ![Len(stack)].child = Len(nodes) + 1]
        /\ remaining' = RemoveConstraint(remaining, fr.next_constraint)
  /\ nodes_created' = nodes_created + 1
  /\ pc' = "call"
  /\ before_trial' = [before_trial EXCEPT ![Len(stack)] = Snapshot]
  /\ UNCHANGED <<constraints, total_iterations, placement_attempts, result>>
  /\ LegacyUnchanged

\* one pass of the option loop at a node that already has 50 children: the store
\* children[child_count++] lands past the array, on child_count itself.  The build
\* either faults on this or a later pass, or the pass goes on as the two actions
\* above describe.
TryOptionOverflow ==
  /\ pc = "loop"
  /\ Top.i <= Top.option_count
  /\ nodes[current_node].child_count >= CHILDREN_CAPACITY
  /\ pc' = "crashed"
  /\ GridUnchanged
  /\ UNCHANGED <<components, constraints, total_iterations, placement_attempts,
                 remaining, nodes, current_node, nodes_created, stack, result,
                 before_trial>>
  /\ LegacyUnchanged

\* the option loop has run out and the failure is handed to solve_tree_constraint
\* itself, past every caller on the way
OptionsExhausted_unwinding_all ==
  /\ pc = "loop"
  /\ Top.i > Top.option_count
  /\ stack' = <<>>
  /\ before_trial' = <<>>
  /\ result' = 0
  /\ pc' = "return"
  /\ GridUnchanged
  /\ UNCHANGED <<components, constraints, total_iterations, placement_attempts,
                 remaining, nodes, current_node, nodes_created>>
  /\ LegacyUnchanged

\* the option loop has run out and advance_to_next_constraint stays where it is
OptionsExhausted_never_returning ==
  /\ pc = "loop"
  /\ Top.i > Top.option_count
  /\ GridUnchanged
  /\ UNCHANGED <<components, constraints, total_iterations, placement_attempts,
                 remaining, nodes, current_node, nodes_created, stack, result, pc,
                 before_trial>>
  /\ LegacyUnchanged

\* the option loop has run out: find_conflict_backtrack_target gives NULL, return 0
OptionsExhausted ==
  /\ pc = "loop"
  /\ Top.i > Top.option_count
  /\ stack' = SubSeq(stack, 1, Len(stack) - 1)
  /\ before_trial' = SubSeq(before_trial, 1, Len(stack) - 1)
  /\ result' = 0
  /\ pc' = "return"
  /\ GridUnchanged
  /\ UNCHANGED <<components, constraints, total_iterations, placement_attempts,
                 remaining, nodes, current_node, nodes_created>>
  /\ LegacyUnchanged

\* the recursive call returned 1: the caller returns 1 at once
ReturnSuccess ==
  /\ pc = "return"
  /\ stack # <<>>
  /\ result = 1
  /\ stack' = SubSeq(stack, 1, Len(stack) - 1)
  /\ before_trial' = SubSeq(before_trial, 1, Len(stack) - 1)
  /\ GridUnchanged
  /\ UNCHANGED <<components, constraints, total_iterations, placement_attempts,
                 remaining, nodes, current_node, nodes_created, pc, result>>
  /\ LegacyUnchanged

\* the recursive call returned 0: the caller removes its trial component, steps
\* back to the child's parent and goes on with its next option
ReturnBacktrack ==
  /\ pc = "return"
  /\ stack # <<>>
  /\ result = 0
  /\ LET fr == Top
         removed == remove_component(components, GridRec, fr.unplaced_comp)
     IN /\ components' = removed.comps
        /\ SetGrid(removed.G)
        /\ current_node' = nodes[fr.child].parent
  /\ stack' = [stack EXCEPT ![Len(stack)].i = @ + 1]
  /\ pc' = "loop"
  /\ UNCHANGED <<constraints, total_iterations, placement_attempts, remaining,
                 nodes, nodes_created, result, before_trial>>
  /\ LegacyUnchanged

\* solve_tree_constraint after advance_to_next_constraint returned:
\* cleanup_tree_solver frees the tree, the result is handed to the caller
SolveReturn ==
  /\ pc = "return"
  /\ stack = <<>>
  /\ nodes' = <<>>
  /\ pc' = "done"
  /\ GridUnchanged
  /\ UNCHANGED <<components, constraints, total_iterations, placement_attempts,
                 remaining, current_node, nodes_created, stack, result, before_trial>>
  /\ LegacyUnchanged

Next ==
  \/ SolveNoComponents
  \/ SolveStart
  \/ AdvanceNoFrontier
  \/ AdvanceUnknownB
  \/ AdvanceUnknownA
  \/ AdvanceNoOptions
  \/ AdvanceGenerate
  \/ TryOptionRejected
  \/ TryOptionPlaced
  \/ TryOptionOverflow
  \/ OptionsExhausted
  \/ ReturnSuccess
  \/ ReturnBacktrack
  \/ SolveReturn

Spec == Init /\ [][Next]_vars

\* solve_tree_constraint runs on one thread from call to return: a step that can
\* be taken is taken
SpecLive == Init /\ [][Next]_vars /\ WF_vars(Next)

\* ------------------------------------------------------------------------
\* Properties of solve_tree_constraint
\* ------------------------------------------------------------------------
Solved == pc = "done" /\ result = 1

PlacedSet == {i \in 1..Len(components) : components[i].is_placed}

\* C1: after solve_tree_constraint returns success, validate_constraint is true
\* on the final placements for every constraint of the solver's list
C1_AllConstraintsValidate ==
  Solved => \A i \in 1..Len(constraints) : validate_constraint(components, constraints[i])

\* world coordinates of the filled cells of a placed component, from its tile
FilledAt(comp) == {<<comp.placed_y + c[1], comp.placed_x + c[2]>> : c \in comp.ascii_tile}

\* C2: in every state during and after solve_tree_constraint no two placed
\* components have a filled tile cell at the same world coordinate
C2_NoSharedFilledCell ==
  \A i \in PlacedSet : \A j \in PlacedSet :
    i # j => FilledAt(components[i]) \cap FilledAt(components[j]) = {}

\* C2 witness: at least two components are placed and the last option tried by the
\* innermost call was refused because it would have covered a placed cell
C2_Witness ==
  /\ pc = "loop"
  /\ Cardinality(PlacedSet) >= 2
  /\ Top.i > 1
  /\ Top.options[Top.i - 1].has_conflict
  /\ ~components[Top.unplaced_comp].is_placed
  /\ \E j \in PlacedSet :
       FilledAt([components[Top.unplaced_comp] EXCEPT
                   !.placed_x = Top.options[Top.i - 1].x,
                   !.placed_y = Top.options[Top.i - 1].y])
         \cap FilledAt(components[j]) # {}

\* C3: whenever solve returns success every added component is placed and
\* holds coordinates
C3_AllPlacedOnSuccess ==
  Solved => \A i \in 1..Len(components) :
              /\ components[i].is_placed
              /\ components[i].placed_x # UNPLACED_COORD
              /\ components[i].placed_y # UNPLACED_COORD

\* C4: when the recursive call made after a trial placement has returned 0,
\* removing the trial component leaves every component's placed flag and
\* coordinates and the grid contents (cell by world coordinate) exactly as
\* they were just before the trial was placed
C4_RollbackExact ==
  [][(pc = "return" /\ stack # <<>> /\ result = 0)
       => /\ components' = before_trial[Len(stack)].components
          /\ WorldCells(grid', grid_min_x', grid_min_y') = before_trial[Len(stack)].world]_vars

\* C5: when frontier selection finds no constraint with exactly one endpoint
\* placed while a component is still unplaced, the call returns failure
C5_DeadConfigurationFails ==
  [][(pc = "call" /\ NextConstraint = 0 /\ PlacedSet # 1..Len(components))
       => result' = 0]_vars

CycleInput ==
  /\ Len(components) = 3
  /\ constraints = AddConstraints(<<Adj("A", "B", "n"), Adj("B", "C", "n"),
                                    Adj("C", "A", "n")>>, <<>>)

\* C6: for A, B, C with ADJACENT(A,B,North), ADJACENT(B,C,North),
\* ADJACENT(C,A,North) solve never returns success
C6_CycleReturnsFailure == (pc = "done" /\ CycleInput) => result = 0

\* C7: every search node visited increments the global iteration counter
C7_IterationCounted ==
  [][nodes_created' > nodes_created => total_iterations' > total_iterations]_vars

ChainInput ==
  /\ Len(components) = 2
  /\ \E ia \in 1..2, ib \in 1..2 :
       /\ components[ia].name = "A" /\ components[ia].width = 7
       /\ components[ia].height = 5
       /\ components[ib].name = "B" /\ components[ib].width = 4
       /\ components[ib].height = 3
  /\ constraints = AddConstraints(<<Adj("B", "A", "n")>>, <<>>)

\* C9: for A (7x5), B (4x3) and ADJACENT(B, A, North) a successful solve ends
\* with B.y = A.y - 3 and B.x = A.x or A.x + 3, whichever was added first
C9_ChainPlacement ==
  (Solved /\ ChainInput) =>
    LET A == components[find_component(components, "A")]
        B == components[find_component(components, "B")]
    IN /\ B.placed_y = A.placed_y - 3
       /\ B.placed_x \in {A.placed_x, A.placed_x + 3}

\* ------------------------------------------------------------------------
\* validate_constraint on its own: two components put down by place_component,
\* one constraint, one call
\* ------------------------------------------------------------------------
MaxReach == 3

\* the constraint's endpoints: both known in either order, or one unknown
ValidateEndpoints == {<<"A", "B">>, <<"B", "A">>, <<"A", "Z">>, <<"Z", "B">>}

ValidateDirections == {"n", "s", "e", "w", "a", "x"}

InitValidate ==
  \E wa \in 1..MaxTile, wb \in 1..MaxTile, hb \in 1..MaxTile,
     a_placed \in BOOLEAN, b_placed \in BOOLEAN,
     bx \in 0..(2 * MaxReach), by \in 0..(2 * MaxReach),
     e \in ValidateEndpoints, d \in ValidateDirections :
    LET added == AddComponents(<<Comp("A", wa, wa, Full(wa, wa)),
                                 Comp("B", wb, hb, Full(wb, hb))>>, <<>>)
        G0 == [cells |-> {}, min_x |-> 0, min_y |-> 0,
               width |-> INIT_GRID_WIDTH, height |-> INIT_GRID_HEIGHT]
        s0 == [comps |-> added, G |-> G0]
        s1 == IF a_placed THEN place_component(s0.comps, s0.G, 1, MaxReach, MaxReach)
              ELSE s0
        s2 == IF b_placed THEN place_component(s1.comps, s1.G, 2, bx, by) ELSE s1
    IN /\ (~b_placed => bx = 0 /\ by = 0)
       /\ components = s2.comps
       /\ constraints = AddConstraints(<<Adj(e[1], e[2], d)>>, <<>>)
       /\ grid = s2.G.cells
       /\ grid_width = s2.G.width
       /\ grid_height = s2.G.height
       /\ grid_min_x = s2.G.min_x
       /\ grid_min_y = s2.G.min_y
       /\ total_iterations = 0
       /\ placement_attempts = [i \in 1..MAX_COMPONENTS |-> 0]
       /\ remaining = <<>>
       /\ nodes = <<>>
       /\ current_node = 0
       /\ nodes_created = 0
       /\ stack = <<>>
       /\ pc = "validate"
       /\ result = 0
       /\ before_trial = <<>>
       /\ failed_positions = {}
       /\ rand_draws = <<>>
       /\ placement_options = <<>>
       /\ NoCall
    /\ failed_positions = {}
    /\ rand_draws = <<>>
    /\ placement_options = <<>>
    /\ NoCall

\* one call of validate_constraint on the stored constraint; its return value
\* is kept in result
Validate ==
  /\ pc = "validate"
  /\ result' = IF validate_constraint(components, constraints[1]) THEN 1 ELSE 0
  /\ pc' = "validated"
  /\ GridUnchanged
  /\ UNCHANGED <<components, constraints, total_iterations, placement_attempts,
                 remaining, nodes, current_node, nodes_created, stack, before_trial>>
  /\ LegacyUnchanged

NextValidate == Validate

SpecValidate == InitValidate /\ [][NextValidate]_vars

\* the columns and rows a placed component's bounding box covers
BoxCols(comp) == comp.placed_x .. (comp.placed_x + comp.width - 1)

BoxRows(comp) == comp.placed_y .. (comp.placed_y + comp.height - 1)

\* q lies edge-flush against side d of p, sharing at least one column (row)
FlushOnSide(p, q, d) ==
  \/ d = "n" /\ q.placed_y + q.height - 1 = p.placed_y - 1
             /\ BoxCols(p) \cap BoxCols(q) # {}
  \/ d = "s" /\ q.placed_y = p.placed_y + p.height
             /\ BoxCols(p) \cap BoxCols(q) # {}
  \/ d = "e" /\ q.placed_x = p.placed_x + p.width
             /\ BoxRows(p) \cap BoxRows(q) # {}
  \/ d = "w" /\ q.placed_x + q.width - 1 = p.placed_x - 1
             /\ BoxRows(p) \cap BoxRows(q) # {}

SidesOf(dir) == IF dir = "a" THEN {"n", "s", "e", "w"} ELSE {dir}

\* the two boxes meet at a corner only: diagonal neighbours with no shared
\* column and no shared row
CornerOnly(p, q) ==
  /\ BoxCols(p) \cap BoxCols(q) = {}
  /\ BoxRows(p) \cap BoxRows(q) = {}
  /\ \/ q.placed_x = p.placed_x + p.width \/ p.placed_x = q.placed_x + q.width
  /\ \/ q.placed_y = p.placed_y + p.height \/ p.placed_y = q.placed_y + q.height

ValidateExpected ==
  LET c == constraints[1]
  IN \E i \in 1..Len(components), j \in 1..Len(components) :
       /\ components[i].name = c.component_a
       /\ components[j].name = c.component_b
       /\ components[i].is_placed
       /\ components[j].is_placed
       /\ \E d \in SidesOf(c.direction) :
            \/ FlushOnSide(components[i], components[j], d)
            \/ FlushOnSide(components[j], components[i], d)

\* C10: validate_constraint on an ADJACENT constraint returns true exactly when
\* both named components exist and are placed and their bounding boxes touch
\* edge-flush on the side the direction names (any of the four for Any) with at
\* least one shared cell along the perpendicular axis; so it is false for an
\* unplaced or unknown component and for boxes that meet only at a corner
C10_ValidateExact ==
  pc = "validated" =>
    /\ (result = 1) <=> ValidateExpected
    /\ (\E i \in 1..2 : ~components[i].is_placed
                           /\ components[i].name \in {constraints[1].component_a,
                                                      constraints[1].component_b})
         => result = 0
    /\ "Z" \in {constraints[1].component_a, constraints[1].component_b} => result = 0
    /\ CornerOnly(components[1], components[2]) => result = 0

\* C10 witness: validated true for a North constraint on two touching boxes
C10_Witness ==
  /\ pc = "validated"
  /\ result = 1
  /\ constraints[1].direction = "n"
  /\ FlushOnSide(components[1], components[2], "n")

\* ------------------------------------------------------------------------
\* Recursive solver (the default of solve_constraints): option generation
\* ------------------------------------------------------------------------
MAX_OVERLAP_POSITIONS == 100

\* the capacity of the options array, MAX_CONSTRAINTS * 10
LegacyOptionLimit == MAX_CONSTRAINTS * 10

\* is_position_failed
is_position_failed(failed, comp_index, x, y) ==
  IF comp_index < 0 \/ comp_index >= MAX_COMPONENTS THEN FALSE
  ELSE <<comp_index, x, y>> \in failed

\* the direction get_placement_options works with: reversed when the component
\* to place is the constraint's component_a
OptionDirection(c, comp) ==
  IF c.component_a = comp.name
  THEN CASE c.direction = "n" -> "s"
         [] c.direction = "s" -> "n"
         [] c.direction = "e" -> "w"
         [] c.direction = "w" -> "e"
         [] OTHER -> c.direction
  ELSE c.direction

\* the component on the other end of the constraint (0 for NULL)
OtherComponent(comps, c, comp) ==
  IF c.component_a = comp.name THEN find_component(comps, c.component_b)
  ELSE IF c.component_b = comp.name THEN find_component(comps, c.component_a)
  ELSE 0

LegacyOption(ci, oi, dir, x, y) == [constraint |-> ci, other_comp |-> oi, dir |-> dir, x |-> x, y |-> y]

\* Phase 1 of get_placement_options: the two wall-aligned positions, in the
\* order the random preference gives them
WallAlignedOptions(comp_index, comp, other, oi, ci, dir, failed, prefer_left_or_top) ==
  LET ns == dir = "n" \/ dir = "s"
      base_x == CASE dir = "e" -> other.placed_x + other.width
                  [] dir = "w" -> other.placed_x - comp.width
                  [] OTHER -> other.placed_x
      base_y == CASE dir = "n" -> other.placed_y - comp.height
                  [] dir = "s" -> other.placed_y + other.height
                  [] OTHER -> other.placed_y
      slide_max == IF ns THEN other.width ELSE other.height
      slide_min == -slide_max
      base == IF ns THEN base_x ELSE base_y
      InRange(v) == v >= base + slide_min /\ v <= base + slide_max
      align_first == IF ns THEN other.placed_x ELSE other.placed_y
      align_second == IF ns THEN other.placed_x + other.width - comp.width
                      ELSE other.placed_y + other.height - comp.height
      At(v) == IF ns THEN LegacyOption(ci, oi, dir, v, base_y)
               ELSE LegacyOption(ci, oi, dir, base_x, v)
      first_checked == IF InRange(align_first)
                          /\ (ns => ~is_position_failed(failed, comp_index, align_first, base_y))
                       THEN <<At(align_first)>> ELSE <<>>
      first_plain == IF InRange(align_first) THEN <<At(align_first)>> ELSE <<>>
      second == IF InRange(align_second) THEN <<At(align_second)>> ELSE <<>>
  IN IF prefer_left_or_top # 0 THEN first_checked \o second ELSE second \o first_plain

\* the overlap_positions array of Phase 2, before sorting
OverlapPositions(comp, other, dir) ==
  LET ns == dir = "n" \/ dir = "s"
      base_x == CASE dir = "e" -> other.placed_x + other.width
                  [] dir = "w" -> other.placed_x - comp.width
                  [] OTHER -> other.placed_x
      base_y == CASE dir = "n" -> other.placed_y - comp.height
                  [] dir = "s" -> other.placed_y + other.height
                  [] OTHER -> other.placed_y
      slide_max == IF ns THEN other.width ELSE other.height
      slide_min == -slide_max
      lo == IF ns THEN other.placed_x - comp.width + 1 - base_x
            ELSE other.placed_y - comp.height + 1 - base_y
      hi == IF ns THEN other.placed_x + other.width - 1 - base_x
            ELSE other.placed_y + other.height - 1 - base_y
      min_overlap_slide == Max2(lo, slide_min)
      max_overlap_slide == Min2(hi, slide_max)
      Pos(slide) ==
        LET slide_x == IF ns THEN base_x + slide ELSE base_x
            slide_y == IF ns THEN base_y ELSE base_y + slide
            overlap == IF ns
                       THEN Min2(slide_x + comp.width, other.placed_x + other.width)
                            - Max2(slide_x, other.placed_x)
                       ELSE Min2(slide_y + comp.height, other.placed_y + other.height)
                            - Max2(slide_y, other.placed_y)
        IN [slide_value |-> slide, overlap_amount |-> overlap, x |-> slide_x, y |-> slide_y]
      n == max_overlap_slide - min_overlap_slide + 1
      all == [k \in 1..(IF n > 0 THEN n ELSE 0) |-> Pos(min_overlap_slide + k - 1)]
  IN Take(SelectSeq(all, LAMBDA q : q.overlap_amount > 0), MAX_OVERLAP_POSITIONS)

\* the exchange sort of Phase 2: highest overlap first
RECURSIVE OverlapSortInner(_, _, _)
OverlapSortInner(q, i, j) ==
  IF j > Len(q) THEN q
  ELSE OverlapSortInner(IF q[j].overlap_amount > q[i].overlap_amount
                        THEN [q EXCEPT ![i] = q[j], ![j] = q[i]]
                        ELSE q,
                        i, j + 1)

RECURSIVE OverlapSortOuter(_, _)
OverlapSortOuter(q, i) ==
  IF i >= Len(q) THEN q ELSE OverlapSortOuter(OverlapSortInner(q, i, i + 1), i + 1)

\* the add loop of Phase 2: a position is skipped when one of the last
\* positions_added options has its coordinates, or when it failed before
RECURSIVE AddSortedPositions(_, _, _, _, _, _, _, _, _)
AddSortedPositions(opts, q, k, positions_added, failed, comp_index, ci, oi, dir) ==
  IF k > Len(q) \/ Len(opts) >= LegacyOptionLimit THEN opts
  ELSE LET window == (Len(opts) - positions_added + 1)..Len(opts)
           already_added == \E w \in window : opts[w].x = q[k].x /\ opts[w].y = q[k].y
           added == IF ~already_added /\ ~is_position_failed(failed, comp_index, q[k].x, q[k].y)
                    THEN Append(opts, LegacyOption(ci, oi, dir, q[k].x, q[k].y))
                    ELSE opts
       IN AddSortedPositions(added, q, k + 1, positions_added, failed, comp_index,
                             ci, oi, dir)

\* the constraint loop of get_placement_options from constraint i on:
\* [options, draws] when it ends
RECURSIVE OptionsFromConstraint(_, _, _, _, _, _, _)
OptionsFromConstraint(comps, cons, comp_index, failed, draws, i, opts) ==
  IF i > Len(cons) THEN [options |-> opts, draws |-> draws]
  ELSE
    LET comp == comps[comp_index + 1]
        oi == OtherComponent(comps, cons[i], comp)
        dir == OptionDirection(cons[i], comp)
    IN IF oi = 0 THEN OptionsFromConstraint(comps, cons, comp_index, failed, draws, i + 1, opts)
       ELSE IF ~comps[oi].is_placed \/ Len(opts) >= LegacyOptionLimit
         THEN OptionsFromConstraint(comps, cons, comp_index, failed, draws, i + 1, opts)
       ELSE IF dir \notin {"n", "s", "e", "w"}
         THEN OptionsFromConstraint(comps, cons, comp_index, failed, draws, i + 1, opts)
       ELSE
         LET prefer_left_or_top == CMod(Head(draws), 2)
             walls == WallAlignedOptions(comp_index, comp, comps[oi], oi, i, dir,
                                         failed, prefer_left_or_top)
             sorted == OverlapSortOuter(OverlapPositions(comp, comps[oi], dir), 1)
             after == AddSortedPositions(opts \o walls, sorted, 1, Len(walls), failed,
                                         comp_index, i, oi, dir)
         IN OptionsFromConstraint(comps, cons, comp_index, failed, Tail(draws), i + 1, after)

\* get_placement_options for the component with 0-based index comp_index
get_placement_options(comps, cons, comp_index, failed, draws) ==
  OptionsFromConstraint(comps, cons, comp_index, failed, draws, 1, <<>>)

MaxRand == 2

\* get_next_component_intelligent: the first unplaced component of the placement
\* order; with one of two components placed it is the other one
get_next_component_intelligent(comps) ==
  IF \E i \in 1..Len(comps) : ~comps[i].is_placed
  THEN CHOOSE i \in 1..Len(comps) :
         ~comps[i].is_placed /\ \A j \in 1..Len(comps) : ~comps[j].is_placed => i <= j
  ELSE 0

\* the state in which try_placement_options asks for the options of the second
\* component: solve_recursive_tree has put the first one at the origin, on a grid
\* cut to its size
InitOptions ==
  \E wa \in 1..MaxTile, ha \in 1..MaxTile, wb \in 1..MaxTile, hb \in 1..MaxTile,
     first_comp_idx \in 1..2, e \in {<<"A", "B">>, <<"B", "A">>},
     d \in ValidateDirections, draw \in 0..MaxRand :
    LET added == AddComponents(<<Comp("A", wa, ha, Full(wa, ha)),
                                 Comp("B", wb, hb, Full(wb, hb))>>, <<>>)
        first_comp == added[first_comp_idx]
    IN /\ components = [added EXCEPT ![first_comp_idx].is_placed = TRUE,
                                     ![first_comp_idx].placed_x = 0,
                                     ![first_comp_idx].placed_y = 0]
       /\ constraints = AddConstraints(<<Adj(e[1], e[2], d)>>, <<>>)
       /\ grid = PaintCells({}, first_comp, 0, 0)
       /\ grid_width = first_comp.width
       /\ grid_height = first_comp.height
       /\ grid_min_x = 0
       /\ grid_min_y = 0
       /\ total_iterations = 1
       /\ placement_attempts = [i \in 1..MAX_COMPONENTS |-> 0]
       /\ remaining = <<>>
       /\ nodes = <<>>
       /\ current_node = 0
       /\ nodes_created = 0
       /\ stack = <<>>
       /\ pc = "options"
       /\ result = 0
       /\ before_trial = <<>>
       /\ failed_positions = {}
       /\ rand_draws = <<draw>>
       /\ placement_options = <<>>
       /\ NoCall

\* one call of get_placement_options for the next component to place
GetPlacementOptions ==
  /\ pc = "options"
  /\ LET got == get_placement_options(components, constraints,
                                      get_next_component_intelligent(components) - 1,
                                      failed_positions, rand_draws)
     IN /\ placement_options' = got.options
        /\ rand_draws' = got.draws
  /\ pc' = "options_done"
  /\ GridUnchanged
  /\ UNCHANGED <<components, constraints, total_iterations, placement_attempts,
                 remaining, nodes, current_node, nodes_created, stack, result,
                 before_trial, failed_positions, call_args, call_options,
                 calls_made>>

NextOptions == GetPlacementOptions

SpecOptions == InitOptions /\ [][NextOptions]_vars

\* C8: no step of option generation depends on a random value: the options
\* get_placement_options returns, and so the position the solve places first,
\* are the ones it returns whatever rand() gives (here: as for a draw of 0)
C8_OptionsIgnoreRandomDraw ==
  pc = "options_done" =>
    placement_options =
      get_placement_options(components, constraints,
                            get_next_component_intelligent(components) - 1,
                            failed_positions, <<0>>).options

\* ------------------------------------------------------------------------
\* constraints.c: candidate generation and scoring of the ADJACENT constraint
\* ------------------------------------------------------------------------

\* the branch of adjacent_calculate_score without the cap on the overlap score
AlignmentScore_uncapped(lo, len, ref_lo, ref_len) ==
  LET hi == lo + len
      ref_hi == ref_lo + ref_len
      overlap_start == IF lo > ref_lo THEN lo ELSE ref_lo
      overlap_end == IF hi < ref_hi THEN hi ELSE ref_hi
      overlap == IF overlap_end > overlap_start THEN overlap_end - overlap_start
                 ELSE 0
  IN IF lo = ref_lo \/ hi = ref_hi THEN 100
     ELSE IF CMod(len, 2) = CMod(ref_len, 2)
             /\ lo + CDiv(len, 2) = ref_lo + CDiv(ref_len, 2) THEN 90
     ELSE IF overlap > 0
          THEN 50 + overlap * 2 + (10 - Min2(Abs(lo - ref_lo), Abs(hi - ref_hi)))
     ELSE Max2(49 - (IF lo > ref_hi THEN lo - ref_hi ELSE ref_lo - hi), 1)

\* one branch of adjacent_calculate_score: the candidate spans [lo, lo + len)
\* and the placed component [ref_lo, ref_lo + ref_len) along the shared edge
AlignmentScore(lo, len, ref_lo, ref_len) ==
  LET hi == lo + len
      ref_hi == ref_lo + ref_len
      aligned == IF lo = ref_lo THEN 100
                 ELSE IF hi = ref_hi THEN 100
                 ELSE IF CMod(len, 2) = CMod(ref_len, 2)
                         /\ lo + CDiv(len, 2) = ref_lo + CDiv(ref_len, 2)
                      THEN 90
                 ELSE 0
      overlap_start == IF lo > ref_lo THEN lo ELSE ref_lo
      overlap_end == IF hi < ref_hi THEN hi ELSE ref_hi
      overlap == IF overlap_end > overlap_start THEN overlap_end - overlap_start
                 ELSE 0
      dist_from_lo == Abs(lo - ref_lo)
      dist_from_hi == Abs(hi - ref_hi)
      min_edge_distance == IF dist_from_lo < dist_from_hi THEN dist_from_lo
                           ELSE dist_from_hi
      gap == IF lo > ref_hi THEN lo - ref_hi ELSE ref_lo - hi
  IN IF aligned # 0 THEN aligned
     ELSE IF overlap > 0
          THEN Min2(50 + overlap * 2 + (10 - min_edge_distance), 89)
     ELSE Max2(49 - gap, 1)

\* adjacent_calculate_score for component ci at (x, y) against placed pi
adjacent_calculate_score(comps, ci, x, y, c, pi) ==
  LET ns == IF c.direction = "n" \/ c.direction = "s"
            THEN AlignmentScore(x, comps[ci].width,
                                comps[pi].placed_x, comps[pi].width)
            ELSE 0
  IN IF c.direction = "e" \/ c.direction = "w"
     THEN AlignmentScore(y, comps[ci].height,
                         comps[pi].placed_y, comps[pi].height)
     ELSE ns

\* calculate_constraint_score: dispatch on the constraint type
calculate_constraint_score(comps, ci, x, y, c, pi) ==
  IF c.type = "DSL_ADJACENT" THEN adjacent_calculate_score(comps, ci, x, y, c, pi)
  ELSE 0

\* one TreePlacementOption as the loops of adjacent_generate_placements fill it
AdjacentOption(comps, c, ui, pi, x, y) ==
  LET conflicts == detect_placement_conflicts_detailed(comps, ui, x, y)
  IN [x |-> x, y |-> y,
      preference_score |-> adjacent_calculate_score(comps, ui, x, y, c, pi),
      conflicts |-> conflicts,
      has_conflict |-> conflicts.conflict_count > 0]

\* adjacent_generate_placements with its north loop starting one column late
adjacent_generate_placements_late(comps, c, ui, pi, max_options) ==
  LET dir == c.direction
      all == IF dir = "n"
             THEN [k \in 1..(comps[pi].width + comps[ui].width - 2) |->
                     AdjacentOption(comps, c, ui, pi,
                                    comps[pi].placed_x + (k + 1 - comps[ui].width),
                                    comps[pi].placed_y - comps[ui].height)]
             ELSE <<>>
  IN Take(all, max_options)

\* adjacent_generate_placements: the options array it fills, north loop first,
\* then south, east and west; every loop stops once max_options are stored
adjacent_generate_placements(comps, c, ui, pi, max_options) ==
  LET dir == c.direction
      base_x == comps[pi].placed_x
      base_y == comps[pi].placed_y
      base_w == comps[pi].width
      base_h == comps[pi].height
      uw == comps[ui].width
      uh == comps[ui].height
      north == IF dir = "n" \/ dir = "a"
               THEN [k \in 1..(base_w + uw - 1) |->
                       AdjacentOption(comps, c, ui, pi, base_x + (k - uw), base_y - uh)]
               ELSE <<>>
      south == IF dir = "s" \/ dir = "a"
               THEN [k \in 1..(base_w + uw - 1) |->
                       AdjacentOption(comps, c, ui, pi, base_x + (k - uw), base_y + base_h)]
               ELSE <<>>
      east == IF dir = "e" \/ dir = "a"
              THEN [k \in 1..(base_h + uh - 1) |->
                      AdjacentOption(comps, c, ui, pi, base_x + base_w, base_y + (k - uh))]
              ELSE <<>>
      west == IF dir = "w" \/ dir = "a"
              THEN [k \in 1..(base_h + uh - 1) |->
                      AdjacentOption(comps, c, ui, pi, base_x - uw, base_y + (k - uh))]
              ELSE <<>>
  IN Take(north \o south \o east \o west, max_options)

\* generate_constraint_placements handing on half of the caller's limit
generate_constraint_placements_halved(comps, c, ui, pi, max_options) ==
  IF c.type = "DSL_ADJACENT"
  THEN adjacent_generate_placements(comps, c, ui, pi, CDiv(max_options, 2))
  ELSE <<>>

\* generate_constraint_placements: dispatch on the constraint type
generate_constraint_placements(comps, c, ui, pi, max_options) ==
  IF c.type = "DSL_ADJACENT"
  THEN adjacent_generate_placements(comps, c, ui, pi, max_options)
  ELSE <<>>

\* ------------------------------------------------------------------------
\* constraint_test.c: one constraint tested on two rooms
\* ------------------------------------------------------------------------

TEST_GRID_WIDTH == 30
TEST_GRID_HEIGHT == 20
TEST_MAX_OPTIONS == 200
TEST_ROOM_X == 5
TEST_ROOM_Y == 3

\* the state after init_solver(w, h) and the given components and constraints,
\* about to call a function on its own
CallInit(comps, cons, w, h, args, opts, at) ==
  /\ components = comps
  /\ constraints = cons
  /\ grid = {}
  /\ grid_width = w
  /\ grid_height = h
  /\ grid_min_x = 0
  /\ grid_min_y = 0
  /\ total_iterations = 0
  /\ placement_attempts = [i \in 1..MAX_COMPONENTS |-> 0]
  /\ remaining = <<>>
  /\ nodes = <<>>
  /\ current_node = 0
  /\ nodes_created = 0
  /\ stack = <<>>
  /\ pc = at
  /\ result = 0
  /\ before_trial = <<>>
  /\ failed_positions = {}
  /\ rand_draws = <<>>
  /\ placement_options = <<>>
  /\ call_args = args
  /\ call_options = opts
  /\ calls_made = 0

\* everything but the outcome of a stand-alone call stays as it is
CallUnchanged ==
  /\ GridUnchanged
  /\ UNCHANGED <<components, constraints, total_iterations, placement_attempts,
                 remaining, nodes, current_node, nodes_created, stack,
                 before_trial, failed_positions, rand_draws, placement_options,
                 call_args, calls_made>>

\* a w x h tile of which only the four corner cells are filled
Corners(w, h) == {<<r, c, "+">> : r \in {0, h - 1}, c \in {0, w - 1}}

\* setup_test_rooms: the two rooms of the test program
setup_test_rooms ==
  <<Comp("RoomA", 8, 5, Box(8, 5)), Comp("RoomB", 4, 3, Box(4, 3))>>

\* room pairs the test is run on: the two rooms of the test program, every
\* pair of small rooms, and two rooms of the largest tile size
TestRooms ==
  {setup_test_rooms,
   <<Comp("RoomA", MAX_TILE_SIZE, MAX_TILE_SIZE, Corners(MAX_TILE_SIZE, MAX_TILE_SIZE)),
     Comp("RoomB", MAX_TILE_SIZE, MAX_TILE_SIZE, Corners(MAX_TILE_SIZE, MAX_TILE_SIZE))>>}
  \cup {<<Comp("RoomA", wa, ha, Box(wa, ha)), Comp("RoomB", wb, hb, Box(wb, hb))>> :
          wa \in 1..MaxTile, ha \in 1..MaxTile, wb \in 1..MaxTile, hb \in 1..MaxTile}

\* what parse_direction can return
TestDirections == {"n", "s", "e", "w", "a", "?"}

\* test_constraint up to its call of generate_constraint_placements: RoomA is
\* marked placed at (5, 3) and the constraint is RoomB against RoomA
InitGenerate ==
  \E rooms \in TestRooms, dir \in TestDirections :
    LET added == AddComponents(rooms, <<>>)
    IN CallInit([added EXCEPT ![1].is_placed = TRUE,
                              ![1].placed_x = TEST_ROOM_X,
                              ![1].placed_y = TEST_ROOM_Y],
                <<[type |-> "DSL_ADJACENT", component_a |-> "RoomB",
                   component_b |-> "RoomA", direction |-> dir]>>,
                TEST_GRID_WIDTH, TEST_GRID_HEIGHT,
                [fn |-> "generate_constraint_placements", unplaced_comp |-> 2,
                 placed_comp |-> 1, max_options |-> TEST_MAX_OPTIONS],
                <<>>, "generate")

\* the call of generate_constraint_placements in test_constraint
GeneratePlacements ==
  /\ pc = "generate"
  /\ call_options' = generate_constraint_placements(components, constraints[1],
                                                    call_args.unplaced_comp,
                                                    call_args.placed_comp,
                                                    call_args.max_options)
  /\ result' = Len(call_options')
  /\ pc' = "generated"
  /\ CallUnchanged

NextGenerate == GeneratePlacements

SpecGenerate == InitGenerate /\ [][NextGenerate]_vars

\* the positions of an options array, in order
PositionsOf(opts) == [k \in 1..Len(opts) |-> <<opts[k].x, opts[k].y>>]

\* the positions at which component q (unplaced) would lie edge-flush on side d
\* of the placed component p with bounding boxes sharing a column (row)
FlushPositions(p, q, d) ==
  {pos \in ((p.placed_x - q.width - 1)..(p.placed_x + p.width + 1))
           \X ((p.placed_y - q.height - 1)..(p.placed_y + p.height + 1)) :
     FlushOnSide(p, [q EXCEPT !.placed_x = pos[1], !.placed_y = pos[2]], d)}

\* C11: for a single-direction constraint the generated positions are exactly
\* the positions at which the unplaced room lies edge-flush on that side of the
\* placed room with at least one shared column (row) of the bounding boxes,
\* each generated once and every one of them returned in the count
C11_SingleDirectionPositions ==
  (pc = "generated" /\ constraints[1].direction \in {"n", "s", "e", "w"}) =>
    LET got == PositionsOf(call_options)
    IN /\ {got[k] : k \in 1..Len(got)}
            = FlushPositions(components[1], components[2], constraints[1].direction)
       /\ \A i, j \in 1..Len(got) : got[i] = got[j] => i = j
       /\ result = Len(got)

\* a north test on the rooms of the test program has returned its 11 positions
C11_Witness ==
  /\ pc = "generated"
  /\ constraints[1].direction = "n"
  /\ components[1].width = 8 /\ components[2].width = 4
  /\ Len(call_options) = 11
  /\ call_options[1].x = TEST_ROOM_X - 3 /\ call_options[1].y = TEST_ROOM_Y - 3

\* the positions generate_constraint_placements returns for the tested rooms
\* when the direction of the constraint is d
PositionsFor(d) ==
  PositionsOf(generate_constraint_placements(components,
                                             [constraints[1] EXCEPT !.direction = d],
                                             call_args.unplaced_comp,
                                             call_args.placed_comp,
                                             call_args.max_options))

\* the set of the elements of a sequence
Range(s) == {s[k] : k \in 1..Len(s)}

\* C12: for direction Any the set of generated positions is the union of the
\* sets generated for North, South, East and West with the same two rooms, and
\* no position is lost to the option limit: as many options are returned as
\* the four single directions return together, for tiles up to MAX_TILE_SIZE
C12_AnyIsUnionOfFour ==
  (pc = "generated" /\ constraints[1].direction = "a") =>
    /\ Range(PositionsOf(call_options))
         = UNION {Range(PositionsFor(d)) : d \in {"n", "s", "e", "w"}}
    /\ Cardinality(Range(PositionsOf(call_options))) = result
    /\ result = Len(PositionsFor("n")) + Len(PositionsFor("s"))
                  + Len(PositionsFor("e")) + Len(PositionsFor("w"))
    /\ result = 2 * (components[1].width + components[2].width - 1)
                  + 2 * (components[1].height + components[2].height - 1)

\* an Any test on two rooms of MAX_TILE_SIZE x MAX_TILE_SIZE has returned all
\* of its 156 positions
C12_Witness ==
  /\ pc = "generated"
  /\ constraints[1].direction = "a"
  /\ \A i \in 1..2 : /\ components[i].width = MAX_TILE_SIZE
                     /\ components[i].height = MAX_TILE_SIZE
  /\ result = 8 * MAX_TILE_SIZE - 4
  /\ Len(call_options) = result

\* ------------------------------------------------------------------------
\* is_placement_valid called for one candidate position
\* ------------------------------------------------------------------------

\* a room with a blank interior, one cell larger than the largest filled tile
Donut == Box(MaxTile + 1, MaxTile + 1)

\* the tiles the occupancy test is tried on: every filled rectangle and the room
OverlapTiles ==
  {[w |-> w, h |-> h, tile |-> Full(w, h)] : w \in 1..MaxTile, h \in 1..MaxTile}
  \cup {[w |-> MaxTile + 1, h |-> MaxTile + 1, tile |-> Donut]}

\* component P is placed at the root position, V is added but not placed, and
\* is_placement_valid is about to be asked about K at (x, y)
InitOverlap ==
  \E p \in OverlapTiles, k \in OverlapTiles,
     x \in (ROOT_X - MaxReach)..(ROOT_X + MaxReach),
     y \in (ROOT_Y - MaxReach)..(ROOT_Y + MaxReach) :
    LET added == AddComponents(<<Comp("P", p.w, p.h, p.tile), Dot("V"),
                                 Comp("K", k.w, k.h, k.tile)>>, <<>>)
        placed == place_component(added,
                                  [cells |-> {}, min_x |-> 0, min_y |-> 0,
                                   width |-> INIT_GRID_WIDTH,
                                   height |-> INIT_GRID_HEIGHT],
                                  1, ROOT_X, ROOT_Y)
    IN /\ components = placed.comps
       /\ constraints = <<>>
       /\ grid = placed.G.cells
       /\ grid_width = placed.G.width
       /\ grid_height = placed.G.height
       /\ grid_min_x = placed.G.min_x
       /\ grid_min_y = placed.G.min_y
       /\ total_iterations = 0
       /\ placement_attempts = [i \in 1..MAX_COMPONENTS |-> 0]
       /\ remaining = <<>>
       /\ nodes = <<>>
       /\ current_node = 0
       /\ nodes_created = 0
       /\ stack = <<>>
       /\ pc = "check_valid"
       /\ result = 0
       /\ before_trial = <<>>
       /\ failed_positions = {}
       /\ rand_draws = <<>>
       /\ placement_options = <<>>
       /\ call_args = [fn |-> "is_placement_valid", comp |-> 3, x |-> x, y |-> y]
       /\ call_options = <<>>
       /\ calls_made = 0

\* one call of is_placement_valid: the grid is expanded for the candidate, the
\* return value is kept in result
IsPlacementValid ==
  /\ pc = "check_valid"
  /\ SetGrid(expand_grid_for_component(GridRec, components[call_args.comp],
                                       call_args.x, call_args.y))
  /\ result' = IF is_placement_valid(components, call_args.comp,
                                     call_args.x, call_args.y) THEN 1 ELSE 0
  /\ pc' = "valid_checked"
  /\ UNCHANGED <<components, constraints, total_iterations, placement_attempts,
                 remaining, nodes, current_node, nodes_created, stack,
                 before_trial, failed_positions, rand_draws, placement_options,
                 call_args, call_options, calls_made>>

NextOverlap == IsPlacementValid

SpecOverlap == InitOverlap /\ [][NextOverlap]_vars

\* the world coordinates the candidate of the call would fill
CandidateCells ==
  FilledAt([components[call_args.comp] EXCEPT !.placed_x = call_args.x,
                                              !.placed_y = call_args.y])

\* C13: is_placement_valid refuses a candidate position exactly when a filled
\* cell of the candidate and a filled cell of an already placed component lie
\* at the same world coordinate, and has_character_overlap says the same of
\* every placed component; bounding boxes alone never make a collision
C13_CollisionIffSharedFilledCell ==
  pc = "valid_checked" =>
    /\ (result = 0) <=>
         \E i \in PlacedSet : CandidateCells \cap FilledAt(components[i]) # {}
    /\ \A i \in PlacedSet :
         has_character_overlap(components[call_args.comp], call_args.x, call_args.y,
                               components[i], components[i].placed_x,
                               components[i].placed_y)
           <=> CandidateCells \cap FilledAt(components[i]) # {}

\* blank-interior case: a candidate lying wholly inside the bounding box of the
\* placed room, on its blank interior, has been accepted
C13_Witness ==
  /\ pc = "valid_checked"
  /\ result = 1
  /\ components[1].ascii_tile = Donut
  /\ call_args.x > components[1].placed_x
  /\ call_args.y > components[1].placed_y
  /\ call_args.x + components[call_args.comp].width
       < components[1].placed_x + components[1].width
  /\ call_args.y + components[call_args.comp].height
       < components[1].placed_y + components[1].height

\* ------------------------------------------------------------------------
\* place_component, remove_component and expand_grid_for_component called
\* directly on a fresh solver
\* ------------------------------------------------------------------------

MaxShift == 1
MaxCalls == 3

\* the positions tried: along the two axes through the origin of the fresh
\* grid, on both sides of it, and one a whole buffer to the north of it
GridPositions ==
  {<<x, 0>> : x \in (-MaxShift)..MaxShift}
  \cup {<<0, y>> : y \in (-MaxShift)..MaxShift}
  \cup {<<0, -MAX_GRID_SIZE>>}

\* a fresh solver with a one-cell component and a post whose middle is blank
InitGrid ==
  CallInit(AddComponents(<<Dot("A"), Comp("B", 1, 3, Post(3))>>, <<>>), <<>>,
           INIT_GRID_WIDTH, INIT_GRID_HEIGHT, NoArgs, <<>>, "grid")

\* one more call is made; what no grid operation touches
GridOpUnchanged ==
  /\ calls_made < MaxCalls
  /\ calls_made' = calls_made + 1
  /\ UNCHANGED <<constraints, total_iterations, placement_attempts, remaining,
                 nodes, current_node, nodes_created, stack, pc, result,
                 failed_positions, rand_draws, placement_options, call_options>>

\* place_component(comp, x, y) for an unplaced component
PlaceComponent ==
  \E ci \in 1..Len(components), pos \in GridPositions :
    /\ pc = "grid"
    /\ ~components[ci].is_placed
    /\ LET placed == place_component(components, GridRec, ci, pos[1], pos[2])
       IN /\ components' = placed.comps
          /\ SetGrid(placed.G)
    /\ call_args' = [fn |-> "place_component", comp |-> ci,
                     x |-> pos[1], y |-> pos[2],
                     valid |-> is_placement_valid(components, ci, pos[1], pos[2])]
    /\ before_trial' = <<Snapshot>>
    /\ GridOpUnchanged

\* remove_component(comp) for a placed component
RemoveComponent ==
  \E ci \in 1..Len(components) :
    /\ pc = "grid"
    /\ components[ci].is_placed
    /\ LET removed == remove_component(components, GridRec, ci)
       IN /\ components' = removed.comps
          /\ SetGrid(removed.G)
    /\ call_args' = [fn |-> "remove_component", comp |-> ci]
    /\ UNCHANGED before_trial
    /\ GridOpUnchanged

\* expand_grid_for_component(comp, x, y) on its own, as is_placement_valid
\* calls it for a candidate position
ExpandGrid ==
  \E ci \in 1..Len(components), pos \in GridPositions :
    /\ pc = "grid"
    /\ ~components[ci].is_placed
    /\ SetGrid(expand_grid_for_component(GridRec, components[ci], pos[1], pos[2]))
    /\ call_args' = [fn |-> "expand_grid_for_component", comp |-> ci,
                     x |-> pos[1], y |-> pos[2]]
    /\ UNCHANGED <<components, before_trial>>
    /\ GridOpUnchanged

NextGrid == PlaceComponent \/ RemoveComponent \/ ExpandGrid

SpecGrid == InitGrid /\ [][NextGrid]_vars

\* C14: when a component has been placed at a position where it covers no
\* filled cell of a placed component and is removed again in the next step,
\* all inside a grid no larger than the buffer, the grid holds, world coordinate by world coordinate, exactly the
\* characters it held before the component was placed
C14_PlaceRemoveRestoresGrid ==
  [][(/\ call_args.fn = "place_component"
      /\ call_args.valid
      /\ call_args'.fn = "remove_component"
      /\ call_args'.comp = call_args.comp
      /\ grid_width' <= MAX_GRID_SIZE /\ grid_height' <= MAX_GRID_SIZE)
       => WorldCells(grid', grid_min_x', grid_min_y') = before_trial[1].world]_vars

\* the character the grid holds for world coordinate (x, y) under the grid's
\* current origin
GridAtWorld(x, y) == GridChar(grid, y - grid_min_y, x - grid_min_x)

\* C15: for every placed component, each filled cell of its tile is the
\* character the grid holds for that cell's world coordinate under the
\* current origin (grid_min_x, grid_min_y), while the grid is no larger than
\* the buffer
C15_GridHoldsPlacedCells ==
  (grid_width <= MAX_GRID_SIZE /\ grid_height <= MAX_GRID_SIZE) =>
    \A i \in PlacedSet :
      \A c \in components[i].ascii_tile :
        GridAtWorld(components[i].placed_x + c[2], components[i].placed_y + c[1]) = c[3]

\* the world coordinates inside the grid's bounds
BoundsCols == grid_min_x .. (grid_min_x + grid_width - 1)

BoundsRows == grid_min_y .. (grid_min_y + grid_height - 1)

\* C16: a call of expand_grid_for_component for a rectangle inside the current
\* bounds changes nothing; any other call leaves bounds that contain the old
\* bounds and the rectangle, and every cell written before keeps its character
\* at the same world coordinate
C16_ExpandKeepsCells ==
  [][call_args'.fn = "expand_grid_for_component" =>
       LET comp == components[call_args'.comp]
           cols == call_args'.x .. (call_args'.x + comp.width - 1)
           rows == call_args'.y .. (call_args'.y + comp.height - 1)
       IN /\ (cols \subseteq BoundsCols /\ rows \subseteq BoundsRows)
               => GridUnchanged
          /\ (BoundsCols \cup cols) \subseteq BoundsCols'
          /\ (BoundsRows \cup rows) \subseteq BoundsRows'
          /\ WorldCells(grid, grid_min_x, grid_min_y)
               \subseteq WorldCells(grid', grid_min_x', grid_min_y')]_vars

\* ------------------------------------------------------------------------
\* calculate_constraint_score called for one candidate position
\* ------------------------------------------------------------------------

\* the side lengths the scored rooms are drawn from: the small ones and the
\* largest a tile can have
ScoreSizes == (1..MaxTile) \cup {MAX_TILE_SIZE}

\* the candidate positions for RoomB on side dir of RoomA: flush against that
\* side and anywhere along it, up to MaxReach cells clear of RoomA at either end
ScorePositions(a, b, dir) ==
  IF dir = "n" \/ dir = "s"
  THEN {<<x, IF dir = "n" THEN a.placed_y - b.height ELSE a.placed_y + a.height>> :
          x \in (a.placed_x - b.width - MaxReach)..(a.placed_x + a.width + MaxReach)}
  ELSE {<<IF dir = "w" THEN a.placed_x - b.width ELSE a.placed_x + a.width, y>> :
          y \in (a.placed_y - b.height - MaxReach)..(a.placed_y + a.height + MaxReach)}

\* test_constraint up to a call of calculate_constraint_score: RoomA is marked
\* placed at (5, 3) and RoomB is scored at (x, y)
InitScore ==
  \E wa \in ScoreSizes, ha \in ScoreSizes, wb \in ScoreSizes, hb \in ScoreSizes,
     dir \in {"n", "s", "e", "w"} :
    LET added == AddComponents(<<Comp("RoomA", wa, ha, Corners(wa, ha)),
                                 Comp("RoomB", wb, hb, Corners(wb, hb))>>, <<>>)
        comps == [added EXCEPT ![1].is_placed = TRUE,
                               ![1].placed_x = TEST_ROOM_X,
                               ![1].placed_y = TEST_ROOM_Y]
    IN \E pos \in ScorePositions(comps[1], comps[2], dir) :
         CallInit(comps,
                  <<[type |-> "DSL_ADJACENT", component_a |-> "RoomB",
                     component_b |-> "RoomA", direction |-> dir]>>,
                  TEST_GRID_WIDTH, TEST_GRID_HEIGHT,
                  [fn |-> "calculate_constraint_score", comp |-> 2,
                   x |-> pos[1], y |-> pos[2], placed_comp |-> 1],
                  <<>>, "score")

\* the call of calculate_constraint_score in test_constraint
ScorePlacement ==
  /\ pc = "score"
  /\ result' = calculate_constraint_score(components, call_args.comp, call_args.x,
                                          call_args.y, constraints[1],
                                          call_args.placed_comp)
  /\ pc' = "scored"
  /\ UNCHANGED call_options
  /\ CallUnchanged

NextScore == ScorePlacement

SpecScore == InitScore /\ [][NextScore]_vars

\* the scored axis of the call: where the candidate and the reference begin
\* on it and how long they are
ScoredAxis ==
  LET horizontal == constraints[1].direction \in {"n", "s"}
      cand == components[call_args.comp]
      ref == components[call_args.placed_comp]
  IN [lo |-> IF horizontal THEN call_args.x ELSE call_args.y,
      len |-> IF horizontal THEN cand.width ELSE cand.height,
      ref_lo |-> IF horizontal THEN ref.placed_x ELSE ref.placed_y,
      ref_len |-> IF horizontal THEN ref.width ELSE ref.height]

\* a span starting at lo shares an edge, the centre, or a cell with the reference
EdgeAligned(ax, lo) == lo = ax.ref_lo \/ lo + ax.len = ax.ref_lo + ax.ref_len

CentreAligned(ax, lo) == 2 * lo + ax.len = 2 * ax.ref_lo + ax.ref_len

AxisOverlap(ax, lo) == lo < ax.ref_lo + ax.ref_len /\ ax.ref_lo < lo + ax.len

ScoreAt(lo) ==
  IF constraints[1].direction \in {"n", "s"}
  THEN calculate_constraint_score(components, call_args.comp, lo, call_args.y,
                                  constraints[1], call_args.placed_comp)
  ELSE calculate_constraint_score(components, call_args.comp, call_args.x, lo,
                                  constraints[1], call_args.placed_comp)

\* the starts on the scored axis that are compared with the scored position
AxisStarts(ax) == (ax.ref_lo - ax.len - MaxReach)..(ax.ref_lo + ax.ref_len + MaxReach)

\* the gap between a span starting at lo and the reference when they are disjoint
AxisGap(ax, lo) == Max2(lo - (ax.ref_lo + ax.ref_len), ax.ref_lo - (lo + ax.len))

\* C18: a candidate that is disjoint from the reference on the scored axis
\* scores strictly below every candidate overlapping the reference on that
\* axis, and no disjoint candidate with a larger gap scores above it, for
\* tiles of every size up to MAX_TILE_SIZE
C18_DisjointBelowOverlapping ==
  (pc = "scored" /\ ~AxisOverlap(ScoredAxis, ScoredAxis.lo)) =>
    LET ax == ScoredAxis
    IN \A lo \in AxisStarts(ax) :
         /\ AxisOverlap(ax, lo) => result < ScoreAt(lo)
         /\ (~AxisOverlap(ax, lo) /\ AxisGap(ax, lo) > AxisGap(ax, ax.lo))
              => ScoreAt(lo) <= result

\* ------------------------------------------------------------------------
\* order_placement_options called on an options array
\* ------------------------------------------------------------------------

MaxOpts == 4

\* preference scores calculate_preference_score can give: nothing aligned, one
\* edge aligned, one edge and the centre aligned
OptionScores == {0, 10, 25}

\* an options array as generation leaves it: option k lies at x = k, with any
\* of the scores and with or without a conflict against component 0
OptionArrays ==
  UNION {[1..n -> OptionScores \X BOOLEAN] : n \in 0..MaxOpts}

GeneratedArray(keys) ==
  [k \in 1..Len(keys) |->
     [x |-> k, y |-> 0, preference_score |-> keys[k][1],
      conflicts |-> [conflicting_components |-> IF keys[k][2] THEN <<0>> ELSE <<>>,
                     conflict_count |-> IF keys[k][2] THEN 1 ELSE 0],
      has_conflict |-> keys[k][2]]]

\* advance_to_next_constraint holds a generated options array and is about to
\* order it
InitOrder ==
  \E keys \in OptionArrays :
    CallInit(AddComponents(setup_test_rooms, <<>>), <<>>,
             INIT_GRID_WIDTH, INIT_GRID_HEIGHT,
             [fn |-> "order_placement_options", options |-> GeneratedArray(keys),
              option_count |-> Len(keys)],
             GeneratedArray(keys), "order")

\* the call of order_placement_options: the array is reordered in place
OrderPlacementOptions ==
  /\ pc = "order"
  /\ call_options' = order_placement_options(call_options)
  /\ pc' = "ordered"
  /\ UNCHANGED result
  /\ CallUnchanged

NextOrder == OrderPlacementOptions

SpecOrder == InitOrder /\ [][NextOrder]_vars

\* C19: the array order_placement_options leaves is a permutation of the array
\* it was given; in it no conflicting option precedes a conflict-free one,
\* options of equal conflict status are in non-increasing preference score,
\* and options equal in both are in the order they had in the input
C19_OrderStablePermutation ==
  pc = "ordered" =>
    /\ Len(call_options) = Len(call_args.options)
    /\ \A k \in 1..Len(call_options) :
         /\ call_options[k].x \in 1..Len(call_args.options)
         /\ call_options[k] = call_args.options[call_options[k].x]
    /\ \A i, j \in 1..Len(call_options) :
         i < j =>
           /\ call_options[i].x # call_options[j].x
           /\ ~(call_options[i].has_conflict /\ ~call_options[j].has_conflict)
           /\ call_options[i].has_conflict = call_options[j].has_conflict
                => call_options[i].preference_score >= call_options[j].preference_score
           /\ (/\ call_options[i].has_conflict = call_options[j].has_conflict
               /\ call_options[i].preference_score = call_options[j].preference_score)
                => call_options[i].x < call_options[j].x

\* an array that had to be reordered and in which two options are equal in
\* conflict status and score has been ordered
C19_Witness ==
  /\ pc = "ordered"
  /\ call_options # call_args.options
  /\ \E i, j \in 1..Len(call_options) :
       /\ i < j
       /\ call_options[i].has_conflict = call_options[j].has_conflict
       /\ call_options[i].preference_score = call_options[j].preference_score
  /\ \E i, j \in 1..Len(call_options) :
       ~call_options[i].has_conflict /\ call_options[j].has_conflict

\* ------------------------------------------------------------------------
\* Root selection of solve_tree_constraint
\* ------------------------------------------------------------------------

\* solve_tree_constraint has placed its root and has not yet called
\* advance_to_next_constraint
RootJustPlaced == pc = "call" /\ stack = <<>> /\ nodes # <<>>

\* the component of the root node
RootComponent == nodes[1].component

InitialRoot ==
  find_most_constrained_unplaced(
    [k \in 1..Len(components) |-> [components[k] EXCEPT !.is_placed = FALSE]],
    constraints, placement_attempts)

\* the components named by no constraint and not taken as root
Unconstrained ==
  {i \in 1..Len(components) :
     count_constraint_degree(constraints, components[i]) = 0 /\ i # InitialRoot}

\* C21: a component that no constraint names and that is not the root is never
\* the component a frontier constraint leaves to place, is never the component
\* of an option loop or of a search node, and is never placed; a solve that
\* returns success returns it with that component unplaced
C21_UnconstrainedNeverPlaced ==
  \A i \in Unconstrained :
    /\ ~components[i].is_placed
    /\ components[i].placed_x = UNPLACED_COORD
    /\ components[i].placed_y = UNPLACED_COORD
    /\ \A k \in 1..Len(stack) : stack[k].unplaced_comp # i
    /\ \A k \in 1..Len(nodes) : nodes[k].component # i
    /\ (pc = "call" /\ NextConstraint # 0)
         => UnplacedOf(constraints[NextConstraint]) # i

\* solve has returned success after working through a constraint, and a
\* component no constraint names is still unplaced
C21_Witness ==
  /\ Solved
  /\ Unconstrained # {}
  /\ Cardinality(PlacedSet) >= 2
  /\ \A i \in Unconstrained : ~components[i].is_placed

\* ------------------------------------------------------------------------
\* The remaining-constraint list across backtracking
\* ------------------------------------------------------------------------

\* constraint ci names a component that exists and is not placed
HasUnplacedEndpoint(ci) ==
  \E name \in {constraints[ci].component_a, constraints[ci].component_b} :
    /\ find_component(components, name) # 0
    /\ ~components[find_component(components, name)].is_placed

\* the constraints in the remaining list
InRemaining == {remaining[k] : k \in 1..Len(remaining)}

\* C22: at every call of advance_to_next_constraint the remaining list holds
\* every constraint that has an unplaced endpoint
C22_RemainingHoldsOpenConstraints ==
  pc = "call" =>
    \A ci \in 1..Len(constraints) : HasUnplacedEndpoint(ci) => ci \in InRemaining


\* the options of the first frontier constraint, in the order the root call of
\* advance_to_next_constraint tries them (none when that call generates none)
FirstFrontierOptions ==
  LET ci == get_next_constraint_involving_placed(components, constraints,
                                                 init_tree_solver(constraints))
  IN IF ci = 0 \/ UnplacedOf(constraints[ci]) = 0 THEN <<>>
     ELSE order_placement_options(
            generate_placement_options_for_constraint(components, constraints[ci],
                                                      UnplacedOf(constraints[ci])))

\* the children of the root node, in order of creation
RootChildren == {n \in 1..Len(nodes) : nodes[n].parent = 1}

RootChildrenBelow(n) == Cardinality({m \in RootChildren : m < n})

\* an OptionsExhausted step hands 0 to the caller alone: one frame leaves the
\* stack, no component changes
ExhaustedReturnsToCaller ==
  (pc = "loop" /\ Top.i > Top.option_count) =>
    /\ stack' = SubSeq(stack, 1, Len(stack) - 1)
    /\ result' = 0
    /\ pc' = "return"
    /\ components' = components

\* the caller receiving 0 removes the component it placed, keeps every other
\* component and its own option array, and moves to its next option
CallerTriesNextOption ==
  (pc = "return" /\ result = 0 /\ stack # <<>>) =>
    /\ ~components'[Top.unplaced_comp].is_placed
    /\ \A k \in 1..Len(components) :
         k # Top.unplaced_comp => components'[k] = components[k]
    /\ Len(stack') = Len(stack)
    /\ stack'[Len(stack)] = [Top EXCEPT !.i = Top.i + 1]
    /\ \A d \in 1..(Len(stack) - 1) : stack'[d] = stack[d]
    /\ pc' = "loop"

\* the solve handing back 0 has made one child of the root for every option of the
\* first frontier constraint, in the order of the options
FailureAfterEveryRootOption ==
  (pc = "return" /\ result = 0 /\ stack = <<>>) =>
    /\ Cardinality(RootChildren) = Len(FirstFrontierOptions)
    /\ \A n \in RootChildren :
         /\ nodes[n].x = FirstFrontierOptions[RootChildrenBelow(n) + 1].x
         /\ nodes[n].y = FirstFrontierOptions[RootChildrenBelow(n) + 1].y

UnplacedAmong(comps, c) ==
  LET ia == find_component(comps, c.component_a)
      ib == find_component(comps, c.component_b)
  IN IF ia # 0 /\ ~comps[ia].is_placed THEN ia
     ELSE IF ib # 0 /\ ~comps[ib].is_placed THEN ib
     ELSE 0

\* the option tree: from comps and the queue rem, some choice of one generated
\* candidate per frontier constraint, each placed without filled-cell overlap,
\* leaves no frontier constraint
RECURSIVE OptionTreeSolves(_, _)
OptionTreeSolves(comps, rem) ==
  LET ci == get_next_constraint_involving_placed(comps, constraints, rem)
  IN IF ci = 0 THEN TRUE
     ELSE LET c == constraints[ci]
              ui == UnplacedAmong(comps, c)
              options == IF ui = 0 THEN <<>>
                         ELSE generate_placement_options_for_constraint(comps, c, ui)
          IN \E k \in 1..Len(options) :
               /\ is_placement_valid(comps, ui, options[k].x, options[k].y)
               /\ OptionTreeSolves([comps EXCEPT ![ui].is_placed = TRUE,
                                                 ![ui].placed_x = options[k].x,
                                                 ![ui].placed_y = options[k].y],
                                   RemoveConstraint(rem, ci))

SolveFailed == pc = "return" /\ stack = <<>> /\ result = 0

\* C24: when solve_tree_constraint returns 0, no choice of one generated candidate
\* per frontier constraint, taken in the solver's order, places every component
\* reachable from the root without filled-cell overlap
C24_FailureMeansNoSolution ==
  SolveFailed => ~OptionTreeSolves(components, init_tree_solver(constraints))


\* the placed endpoint of the constraint a frame works on
PartnerOf(fr) ==
  LET c == constraints[fr.next_constraint]
      ia == find_component(components, c.component_a)
      ib == find_component(components, c.component_b)
  IN IF ia # 0 /\ ia # fr.unplaced_comp THEN ia ELSE ib

\* option k of a frame shares an edge line with the placed endpoint: left or right
\* edge for n/s, top or bottom edge for e/w
FlushOption(fr, k) ==
  LET c == constraints[fr.next_constraint]
      comp == components[fr.unplaced_comp]
      ref == components[PartnerOf(fr)]
      opt == fr.options[k]
  IN IF c.direction \in {"n", "s"}
     THEN opt.x = ref.placed_x \/ opt.x + comp.width = ref.placed_x + ref.width
     ELSE opt.y = ref.placed_y \/ opt.y + comp.height = ref.placed_y + ref.height

\* the options of a frame that have been tried or are the one now tried
TriedOptions(fr) == 1..Min2(fr.i, fr.option_count)

\* C25: for a n/s/e/w frontier constraint no option that is not edge-aligned is
\* tried while a conflict-free edge-aligned option is still to come; so the first
\* option tried is edge-aligned whenever a conflict-free edge-aligned one exists
C25_FlushTriedFirst ==
  \A d \in 1..Len(stack) :
    constraints[stack[d].next_constraint].direction \in {"n", "s", "e", "w"} =>
      \A j \in TriedOptions(stack[d]) :
        \A k \in (j + 1)..stack[d].option_count :
          ~(/\ ~FlushOption(stack[d], j)
            /\ FlushOption(stack[d], k)
            /\ ~stack[d].options[k].has_conflict)


\* how often option o occurs in the array opts
Occurrences(opts, o) == Cardinality({k \in 1..Len(opts) : opts[k] = o})

\* the frame about to try an option holds every candidate generated for its
\* constraint, each as often as it was generated
KeepsEveryCandidate ==
  pc = "loop" =>
    LET fr == Top
        generated == generate_placement_options_for_constraint(
                       components, constraints[fr.next_constraint], fr.unplaced_comp)
    IN /\ fr.option_count = Len(generated)
       /\ Len(fr.options) = Len(generated)
       /\ \A k \in 1..Len(generated) :
            Occurrences(fr.options, generated[k]) = Occurrences(generated, generated[k])

\* the children of node n, in order of creation
ChildrenOf(n) == {m \in 1..Len(nodes) : nodes[m].parent = n}

\* a node gives up only with one child per option, in the order of the options
GivesUpAfterEveryOption ==
  (pc = "loop" /\ Top.i > Top.option_count) =>
    /\ Cardinality(ChildrenOf(current_node)) = Top.option_count
    /\ \A m \in ChildrenOf(current_node) :
         LET k == Cardinality({q \in ChildrenOf(current_node) : q < m}) + 1
         IN nodes[m].x = Top.options[k].x /\ nodes[m].y = Top.options[k].y

\* the run does not end while a node still holds options it has not tried, unless
\* the solve succeeded
NoOptionLeftUntried ==
  pc \in {"done", "crashed"} =>
    \A d \in 1..Len(stack) : stack[d].i >= stack[d].option_count

\* every option tried before a conflicting one is tried: the conflict-free options
\* come first in the order of trial
ConflictFreeTriedFirst ==
  \A d \in 1..Len(stack) :
    \A j \in TriedOptions(stack[d]) :
      stack[d].options[j].has_conflict =>
        \A k \in 1..stack[d].option_count :
          ~stack[d].options[k].has_conflict => k < j

\* C26: no generated candidate is discarded; every candidate of a node is
\* attempted unless an earlier one led to success; a conflicting candidate is
\* attempted only after every conflict-free candidate of the node has failed
C26_EveryCandidateAttempted ==
  /\ KeepsEveryCandidate
  /\ GivesUpAfterEveryOption
  /\ NoOptionLeftUntried
  /\ ConflictFreeTriedFirst


\* the endpoint name is that of a placed component
EndpointPlaced(name) ==
  \E i \in 1..Len(components) : components[i].name = name /\ components[i].is_placed

\* entry k of the remaining queue has one endpoint placed and the other not
OnePlacedAt(k) ==
  EndpointPlaced(constraints[remaining[k]].component_a)
    # EndpointPlaced(constraints[remaining[k]].component_b)

\* what the call of get_next_constraint_involving_placed made in this state returns
ReturnsFirstFrontier ==
  pc = "call" =>
    /\ NextConstraint = 0 <=> \A k \in 1..Len(remaining) : ~OnePlacedAt(k)
    /\ NextConstraint # 0 =>
         \E k \in 1..Len(remaining) :
           /\ remaining[k] = NextConstraint
           /\ OnePlacedAt(k)
           /\ \A j \in 1..(k - 1) : ~OnePlacedAt(j)

\* a call that only asks for the frontier constraint leaves the solver as it was
FrontierLookupChangesNothing ==
  (pc = "call" /\ NextConstraint = 0) =>
    UNCHANGED <<components, constraints, remaining, grid, grid_width, grid_height,
                grid_min_x, grid_min_y, nodes, current_node, nodes_created>>

\* C27: get_next_constraint_involving_placed returns the first constraint of the
\* remaining queue with exactly one endpoint placed, NULL exactly when the queue
\* holds none, never a constraint with both or neither endpoint placed, and it
\* changes no state
C27_FirstFrontierConstraint ==
  []ReturnsFirstFrontier /\ [][FrontierLookupChangesNothing]_vars

\* a call that passes over a queued constraint with neither endpoint placed before
\* it returns the frontier constraint
C27_Witness ==
  /\ pc = "call"
  /\ NextConstraint # 0
  /\ \E k \in 1..Len(remaining) :
       /\ remaining[k] # NextConstraint
       /\ ~EndpointPlaced(constraints[remaining[k]].component_a)
       /\ ~EndpointPlaced(constraints[remaining[k]].component_b)
       /\ \E j \in (k + 1)..Len(remaining) : remaining[j] = NextConstraint


\* the call made in this state finds a frontier constraint and generates no option
GeneratesNothing ==
  /\ pc = "call"
  /\ NextConstraint # 0
  /\ UnplacedOf(constraints[NextConstraint]) # 0
  /\ generate_placement_options_for_constraint(
       components, constraints[NextConstraint],
       UnplacedOf(constraints[NextConstraint])) = <<>>

\* the frontier constraint of this state has a direction other than n, s, e, w, a
UnknownDirection ==
  /\ NextConstraint # 0
  /\ constraints[NextConstraint].direction \notin {"n", "s", "e", "w", "a"}

\* a call that generates no option returns 0 and touches nothing else
FailsAtOnce ==
  GeneratesNothing =>
    /\ result' = 0
    /\ pc' = "return"
    /\ UNCHANGED <<components, constraints, remaining, grid, grid_width, grid_height,
                   grid_min_x, grid_min_y, nodes, current_node, nodes_created, stack>>

\* a direction outside n/s/e/w/a gives no option
UnknownDirectionGeneratesNothing ==
  (pc = "call" /\ UnknownDirection /\ UnplacedOf(constraints[NextConstraint]) # 0)
    => GeneratesNothing

\* C28: when option generation for the frontier constraint yields nothing, as for a
\* direction outside n/s/e/w/a, advance_to_next_constraint returns 0 at once: no
\* component placed or removed, no child node created, the remaining queue as it was
C28_NoOptionsFailsAtOnce ==
  []UnknownDirectionGeneratesNothing /\ [][FailsAtOnce]_vars

\* a nested call has just returned 0 for a constraint of unknown direction: the
\* caller's trial component is still placed and its child is the newest node
C28_Witness ==
  /\ pc = "return"
  /\ result = 0
  /\ stack # <<>>
  /\ Top.child = Len(nodes)
  /\ components[Top.unplaced_comp].is_placed
  /\ UnknownDirection
  /\ UnplacedOf(constraints[NextConstraint]) # 0


\* the options the tree solver's own generator gives for the tested constraint
TreeOptions ==
  generate_placement_options_for_constraint(components, constraints[1],
                                            call_args.unplaced_comp)

\* the conflict flags of an options array, in order
ConflictFlagsOf(opts) == [k \in 1..Len(opts) |-> opts[k].has_conflict]

\* the preference scores of an options array, in order
ScoresOf(opts) == [k \in 1..Len(opts) |-> opts[k].preference_score]

\* C29: for the same constraint and state generate_placement_options_for_constraint
\* yields the same sequence of positions, conflict flags and preference scores as
\* generate_constraint_placements, so both put the candidates in the same order
C29_TreeOptionsAreDispatchOptions ==
  pc = "generated" =>
    /\ PositionsOf(TreeOptions) = PositionsOf(call_options)
    /\ ConflictFlagsOf(TreeOptions) = ConflictFlagsOf(call_options)
    /\ ScoresOf(TreeOptions) = ScoresOf(call_options)
    /\ PositionsOf(order_placement_options(TreeOptions))
         = PositionsOf(order_placement_options(call_options))


\* check_constraint_satisfied on the validated constraint, called with its
\* component_a as the first component at the position it is placed at
CheckedWithAFirst ==
  LET c == constraints[1]
      ia == find_component(components, c.component_a)
      ib == find_component(components, c.component_b)
  IN IF ia = 0 THEN FALSE
     ELSE check_constraint_satisfied(components, c, ia, ib,
                                     components[ia].placed_x, components[ia].placed_y)

\* C30: adjacent_validate_constraint on ADJACENT(A, B, d) returns the verdict of
\* check_constraint_satisfied / check_adjacent taken with A as the first
\* component (A lies on side d of B); a layout accepted for North is not
\* accepted for South
C30_ValidatorsAgreeDirected ==
  pc = "validated" =>
    /\ (result = 1) <=> CheckedWithAFirst
    /\ (result = 1 /\ constraints[1].direction = "n") =>
         ~validate_constraint(components, [constraints[1] EXCEPT !.direction = "s"])


\* the components with component ui placed at position pos
PlacedAt(ui, pos) ==
  [components EXCEPT ![ui].is_placed = TRUE, ![ui].placed_x = pos[1],
                     ![ui].placed_y = pos[2]]

\* the options generate_constraint_placements gives for the frame's constraint
DispatchOptions(fr) ==
  generate_constraint_placements(components, constraints[fr.next_constraint],
                                 fr.unplaced_comp, PartnerOf(fr), MAX_OPTIONS)

\* C31: every candidate generated for a frontier constraint, by the tree solver's
\* generator and by the dispatch generator, satisfies validate_constraint once the
\* unplaced component is put there and the placed endpoint stays where it is
C31_CandidatesValidate ==
  pc = "loop" =>
    \A pos \in Range(PositionsOf(Top.options))
                 \cup Range(PositionsOf(DispatchOptions(Top))) :
      validate_constraint(PlacedAt(Top.unplaced_comp, pos),
                          constraints[Top.next_constraint])

\* options generated on all four sides for an Any constraint whose second
\* endpoint is the unplaced one
C31_Witness ==
  /\ pc = "loop"
  /\ constraints[Top.next_constraint].direction = "a"
  /\ components[Top.unplaced_comp].name = constraints[Top.next_constraint].component_b
  /\ Len(Top.options) >= 4
  /\ Len(DispatchOptions(Top)) = Len(Top.options)


\* the world cells the root component fills at its anchor
RootCells ==
  {<<ROOT_Y + c[1], ROOT_X + c[2], c[3]>> : c \in components[RootComponent].ascii_tile}

\* C32: when solve_tree_constraint returns 0, every component other than the root
\* is unplaced with coordinates (-1, -1), the grid holds no cell but the root's,
\* and the root is still placed at its anchor
C32_FailureLeavesOnlyRoot ==
  (SolveFailed /\ nodes # <<>>) =>
    /\ components[RootComponent].is_placed
    /\ components[RootComponent].placed_x = ROOT_X
    /\ components[RootComponent].placed_y = ROOT_Y
    /\ \A i \in 1..Len(components) :
         i # RootComponent =>
           /\ ~components[i].is_placed
           /\ components[i].placed_x = UNPLACED_COORD
           /\ components[i].placed_y = UNPLACED_COORD
    /\ WorldCells(grid, grid_min_x, grid_min_y) = RootCells


\* solve_tree_constraint has returned, or the process has stopped on a fault
SolveEnded == pc \in {"done", "crashed"}

\* a call of advance_to_next_constraint is made with the root and one component
\* per caller placed
CallHasOneMorePlaced ==
  pc = "call" => Cardinality(PlacedSet) = Len(stack) + 1

\* every node's option list is bounded and its loop index stays inside it
OptionListsFinite ==
  \A d \in 1..Len(stack) :
    /\ stack[d].option_count = Len(stack[d].options)
    /\ stack[d].option_count <= MAX_OPTIONS
    /\ stack[d].i \in 1..(stack[d].option_count + 1)

\* a caller's loop index never goes back
LoopIndexAdvances ==
  \A d \in 1..Len(stack) :
    (d <= Len(stack') /\ stack'[d].next_constraint = stack[d].next_constraint
       /\ stack'[d].unplaced_comp = stack[d].unplaced_comp)
      => stack'[d].i >= stack[d].i

\* C33: solve_tree_constraint ends on every input, with no iteration cap: every
\* call of advance_to_next_constraint has one more component placed than its
\* caller's, every node has a finite option list, and its loop index only rises
C33_SolveTerminates ==
  /\ <>SolveEnded
  /\ []CallHasOneMorePlaced
  /\ []OptionListsFinite
  /\ [][LoopIndexAdvances]_vars

\* solve_tree_constraint has returned 0 after a search that made at least three
\* nodes below the root
C33_Witness ==
  /\ pc = "done"
  /\ result = 0
  /\ nodes_created >= 4


\* C34: in every reachable state grid_width and grid_height are at most
\* MAX_GRID_SIZE, so that every index from 0 to grid_height - 1 and from 0 to
\* grid_width - 1 lies inside the buffer and each filled cell of a placed
\* component has a buffer cell
C34_GridFitsBuffer ==
  /\ grid_width <= MAX_GRID_SIZE
  /\ grid_height <= MAX_GRID_SIZE


\* option k of a frame lies on the north or south side of the placed endpoint
OnNorthSouthSide(fr, k) ==
  LET comp == components[fr.unplaced_comp]
      ref == components[PartnerOf(fr)]
      opt == fr.options[k]
  IN opt.y = ref.placed_y - comp.height \/ opt.y = ref.placed_y + ref.height

\* option k of a frame shares an edge line with the placed endpoint along the
\* side it lies on
EdgeAlignedOnItsSide(fr, k) ==
  LET comp == components[fr.unplaced_comp]
      ref == components[PartnerOf(fr)]
      opt == fr.options[k]
  IN IF OnNorthSouthSide(fr, k)
     THEN opt.x = ref.placed_x \/ opt.x + comp.width = ref.placed_x + ref.width
     ELSE opt.y = ref.placed_y \/ opt.y + comp.height = ref.placed_y + ref.height

\* the frames whose constraint has direction Any
AnyFrames == {d \in 1..Len(stack) : constraints[stack[d].next_constraint].direction = "a"}

\* C35: among the candidates of a constraint with direction Any, an edge-aligned
\* candidate has a higher preference score than every candidate that is not
\* edge-aligned, so the candidates do not all receive the same score
C35_AnyCandidatesRanked ==
  \A d \in AnyFrames :
    \A k, l \in 1..stack[d].option_count :
      (EdgeAlignedOnItsSide(stack[d], k) /\ ~EdgeAlignedOnItsSide(stack[d], l))
        => stack[d].options[k].preference_score > stack[d].options[l].preference_score


\* a pass of the option loop: the current node gets a child for option Top.i
OptionTried ==
  /\ pc = "loop"
  /\ Top.i <= Top.option_count
  /\ Len(nodes') = Len(nodes) + 1

\* the pass placed its component
TrialPlaced == components'[Top.unplaced_comp].is_placed

\* C36: an option's has_conflict flag agrees with the outcome of trying it at
\* its node: a flagged option is never placed, an unflagged one always is
C36_FlagAgreesWithTrial ==
  [][OptionTried => (Top.options[Top.i].has_conflict <=> ~TrialPlaced)]_vars

\* the caller's current option was flagged conflict-free and is placed; the node
\* below it has tried an option flagged as conflicting, which was refused
C36_Witness ==
  /\ pc = "loop"
  /\ Len(stack) >= 2
  /\ LET caller == stack[Len(stack) - 1]
     IN /\ ~caller.options[caller.i].has_conflict
        /\ components[caller.unplaced_comp].is_placed
        /\ components[caller.unplaced_comp].placed_x = caller.options[caller.i].x
        /\ components[caller.unplaced_comp].placed_y = caller.options[caller.i].y
  /\ Top.i >= 2
  /\ Top.options[Top.i - 1].has_conflict
  /\ ~components[Top.unplaced_comp].is_placed


\* the solver has just been built from input in: no solve has started
BuiltFrom(in) ==
  /\ pc = "ready"
  /\ components = AddComponents(in.comps, <<>>)
  /\ constraints = AddConstraints(in.cons, <<>>)

\* the constraint line l is held by the solver
Stored(l) ==
  \E j \in 1..Len(constraints) :
    /\ constraints[j].component_a = l.a
    /\ constraints[j].component_b = l.b
    /\ constraints[j].direction = l.dir

\* C37: a constraint line of a kind other than ADJACENT handed to add_constraint
\* is not silently dropped: add_constraint returns nothing and reports nothing,
\* so the line has to be among the stored constraints
C37_UnknownKindSurfaced ==
  \A in \in CatalogueInputs :
    BuiltFrom(in) =>
      \A k \in 1..Len(in.cons) : in.cons[k].type # "ADJACENT" => Stored(in.cons[k])


\* what add_component fixes of a component: name, size and occupancy mask
Definition(comp) ==
  [name |-> comp.name, width |-> comp.width, height |-> comp.height,
   ascii_tile |-> comp.ascii_tile]

\* the definitions of all components, in order
Definitions(comps) == [i \in 1..Len(comps) |-> Definition(comps[i])]

\* a step keeps every component's definition and every constraint
DefinitionsKept ==
  /\ Definitions(components') = Definitions(components)
  /\ constraints' = constraints

\* C38: no step of solve changes a component's name, width, height or occupancy
\* mask, a constraint's kind, endpoints or direction, or the number of components
\* or constraints
C38_DefinitionsImmutable == [][DefinitionsKept]_vars

\* a node whose previous option was placed and, after the search below it
\* failed, removed again, and which is about to try its next option
C38_Witness ==
  /\ pc = "loop"
  /\ Top.i >= 2
  /\ Top.i <= Top.option_count
  /\ ~Top.options[Top.i - 1].has_conflict
  /\ ~components[Top.unplaced_comp].is_placed
  /\ Cardinality(PlacedSet) >= 1


\* C39: in every state of solve_tree_constraint each node's child_count is at
\* most the capacity of its children array
C39_ChildrenFitArray ==
  \A n \in 1..Len(nodes) : nodes[n].child_count <= CHILDREN_CAPACITY

=============================================================================
